---- MODULE Spec2Model ----
(***************************************************************************)
(* A model of app_download_analyzer: the theme classifier, the trend       *)
(* analyzer, the snapshot store and the report / time-series builders.     *)
(*                                                                         *)
(* Strings that the code inspects character by character (names, genres,   *)
(* genre ids, theme labels, rule fragments) are sequences of one-character *)
(* strings; identifiers the code only compares (app ids) are TLA+ strings. *)
(* A finite float64 is a fixed-point integer in units of 1/Scale; weights  *)
(* and scores, which can be infinite or NaN, are tagged records (Fin, Inf,  *)
(* NaN).                                                                   *)
(***************************************************************************)
EXTENDS Integers, Sequences, FiniteSets, TLC

VARIABLES
    themeFile,   \* the theme rules file at themePath
    cfg,         \* analysis.TrendConfig built from the command-line flags
    snapshots,   \* table snapshots, in insertion order
    chartItems,  \* table chart_items: snapshot id -> rows, in insertion order
    clock,       \* wall clock, hours since 1970-01-01T00:00Z
    report,      \* what the last call of computeReport returned
    series,      \* what the last call of computeTimeSeries returned
    input,       \* the ThemeInput of a Classify call and the classifier's rules
    theme,       \* what that Classify call returned
    args,        \* the arguments of an AnalyzeTrends call
    result,      \* what that AnalyzeTrends call returned
    themeConfig, \* what a call of LoadThemeConfig returned
    heap,        \* the string cells behind the genre slices of shared items
    shared,      \* items handed to two calls of AnalyzeTrends, as first given
    calls,       \* each of those calls: its item order, position and labels
    mu,          \* sync.Mutex of runServe: "free" or the goroutine holding it
    fetcher,     \* the auto-fetch goroutine of runServe: where it is, its fetch
    handlers,    \* the goroutines serving /api/report and /api/timeseries
    topChart     \* a call of FetchTopChart: its attempt, responses and return

vars == <<themeFile, cfg, snapshots, chartItems, clock, report, series,
          input, theme, args, result, themeConfig, heap, shared, calls,
          mu, fetcher, handlers, topChart>>

storeVars == <<themeFile, cfg, snapshots, chartItems, clock, report, series>>
classifyVars == <<input, theme>>
analyzeVars == <<args, result>>
loadVars == <<themeConfig>>
shareVars == <<heap, shared, calls>>
serveVars == <<mu, fetcher, handlers>>
chartVars == <<topChart>>

-----------------------------------------------------------------------------
(* Bounds *)

MaxSnapshots == 3
MaxItems == 2
MaxRules == 2
MaxRating == 2
Scale == 100

-----------------------------------------------------------------------------
(* Sequence helpers *)

Range(s) == {s[i] : i \in 1..Len(s)}

RECURSIVE SumSeq(_)
SumSeq(s) == IF s = <<>> THEN 0 ELSE Head(s) + SumSeq(Tail(s))

Min(a, b) == IF a < b THEN a ELSE b

\* The sequences over S without repetition, of length 0..n
Arrangements(S, n) ==
    UNION {{s \in [1..k -> S] : \A i, j \in 1..k : i # j => s[i] # s[j]} : k \in 0..n}

\* The sequences over S of length lo..hi
SeqsOf(S, lo, hi) == UNION {[1..k -> S] : k \in lo..hi}

-----------------------------------------------------------------------------
(* Strings *)

\* strings.ToLower on one character
LowerChar(c) ==
    CASE c = "A" -> "a" [] c = "B" -> "b" [] c = "F" -> "f" [] c = "G" -> "g"
      [] c = "K" -> "k" [] c = "M" -> "m" [] c = "O" -> "o" [] c = "P" -> "p"
      [] c = "T" -> "t" [] c = "Y" -> "y"
      [] OTHER -> c

ToLower(s) == [i \in 1..Len(s) |-> LowerChar(s[i])]

RECURSIVE TrimLeft(_)
TrimLeft(s) == IF s # <<>> /\ Head(s) = " " THEN TrimLeft(Tail(s)) ELSE s

RECURSIVE TrimRight(_)
TrimRight(s) ==
    IF s # <<>> /\ s[Len(s)] = " " THEN TrimRight(SubSeq(s, 1, Len(s) - 1)) ELSE s

TrimSpace(s) == TrimRight(TrimLeft(s))

\* strings.Contains
Contains(s, sub) ==
    \E i \in 0..(Len(s) - Len(sub)) : SubSeq(s, i + 1, i + Len(sub)) = sub

-----------------------------------------------------------------------------
(* Theme classifier (package analysis) *)

\* type ThemeRule
ThemeRule(t, ids, genres, keywords) ==
    [Theme |-> t, GenreIDs |-> ids, Genres |-> genres, Keywords |-> keywords]

\* normalizeList: trimmed, lower-cased, empty entries dropped
RECURSIVE normalizeList(_)
normalizeList(items) ==
    IF items = <<>> THEN <<>>
    ELSE LET value == ToLower(TrimSpace(Head(items)))
         IN  IF value = <<>> THEN normalizeList(Tail(items))
             ELSE <<value>> \o normalizeList(Tail(items))

\* A plausible fault: a candidate must equal the value, not occur in it
containsAnyExact(value, candidates) ==
    \E k \in 1..Len(candidates) : candidates[k] # <<>> /\ value = candidates[k]

\* containsAny: some non-empty candidate is a substring of value
containsAny(value, candidates) ==
    \E k \in 1..Len(candidates) :
        candidates[k] # <<>> /\ Contains(value, candidates[k])

\* The body of NewThemeClassifier's loop: one normalizedRule
normalizeRule(rule) ==
    [theme    |-> ToLower(rule.Theme),
     genreIDs |-> {TrimSpace(id) : id \in Range(rule.GenreIDs)},
     genres   |-> normalizeList(rule.Genres),
     keywords |-> normalizeList(rule.Keywords)]

\* NewThemeClassifier: the rules of the classifier, in configuration order
NewThemeClassifier(themes) ==
    [i \in 1..Len(themes.Rules) |-> normalizeRule(themes.Rules[i])]

\* The three tests Classify makes on one rule, in the order it makes them
ruleHit(rule, genres, genreIDs, name) ==
    \/ \E id \in genreIDs : id \in rule.genreIDs
    \/ \E g \in 1..Len(genres) : containsAny(genres[g], rule.genres)
    \/ rule.keywords # <<>> /\ containsAny(name, rule.keywords)

\* The rule loop of Classify from rule i on, returning at the first hit
RECURSIVE classifyFrom(_, _, _, _, _)
classifyFrom(rules, i, genres, genreIDs, name) ==
    IF i > Len(rules) THEN <<"o", "t", "h", "e", "r">>
    ELSE IF ruleHit(rules[i], genres, genreIDs, name) THEN rules[i].theme
    ELSE classifyFrom(rules, i + 1, genres, genreIDs, name)

\* A plausible fault: one pass per predicate type, genre ids first
classifyByPredicate(rules, in) ==
    LET genres   == normalizeList(in.Genres \o in.ItunesGenres \o <<in.PrimaryGenre>>)
        genreIDs == {TrimSpace(id) : id \in Range(in.GenreIDs)}
        name     == ToLower(in.Name)
        byID  == {i \in 1..Len(rules) : \E id \in genreIDs : id \in rules[i].genreIDs}
        byGen == {i \in 1..Len(rules) :
                    \E g \in 1..Len(genres) : containsAny(genres[g], rules[i].genres)}
        byKey == {i \in 1..Len(rules) : containsAny(name, rules[i].keywords)}
        least(S) == CHOOSE i \in S : \A j \in S : i <= j
    IN  IF byID # {} THEN rules[least(byID)].theme
        ELSE IF byGen # {} THEN rules[least(byGen)].theme
        ELSE IF byKey # {} THEN rules[least(byKey)].theme
        ELSE <<"o", "t", "h", "e", "r">>

\* ThemeClassifier.Classify, on a classifier with the given rules
Classify(rules, in) ==
    LET genres   == normalizeList(in.Genres \o in.ItunesGenres \o <<in.PrimaryGenre>>)
        genreIDs == {TrimSpace(id) : id \in Range(in.GenreIDs)}
        name     == ToLower(in.Name)
    IN  classifyFrom(rules, 1, genres, genreIDs, name)

-----------------------------------------------------------------------------
(* The strings of the model *)

sOther   == <<"o", "t", "h", "e", "r">>
sGames   == <<"G", "a", "m", "e", "s">>
sFinance == <<"F", "i", "n", "a", "n", "c", "e">>
sTravel  == <<"T", "r", "a", "v", "e", "l">>
sGoPay   == <<"G", "o", "P", "a", "y">>
sBank    == <<"B", "a", "n", "k">>
sMaps    == <<"M", "a", "p", "s">>
id6014   == <<"6", "0", "1", "4">>
id6015   == <<"6", "0", "1", "5">>
id6003   == <<"6", "0", "0", "3">>

-----------------------------------------------------------------------------
(* Classify as a pure function: the rule lists and inputs it is applied to *)

\* type ThemeInput
ThemeInput(name, genres, ids, primary, itunes) ==
    [Name |-> name, Genres |-> genres, GenreIDs |-> ids,
     PrimaryGenre |-> primary, ItunesGenres |-> itunes]

\* Rules as a themes file may state them: mixed case, padded, empty entries
ClassifyRules ==
    { ThemeRule(sGames, <<<<" ">> \o id6014>>, <<>>, <<>>),
      ThemeRule(ToLower(sFinance), <<>>, <<sFinance \o <<" ">>>>, <<>>),
      ThemeRule(<<"p", "a", "y">>, <<>>, <<>>, <<<<"P", "A", "Y">>>>),
      ThemeRule(<<"M", "i", "x">>, <<id6015>>, <<<<"g", "a", "m", "e">>>>,
                <<<<"b", "a", "n", "k">>, <<" ">>>>),
      ThemeRule(<<>>, <<>>, <<<<>>>>, <<<<"g", "o">>>>) }

ClassifyInputs ==
    { ThemeInput(n, g, i, p, t) :
        n \in {<<>>, sGoPay, sBank},
        g \in {<<>>, <<sGames>>, <<<<" ">> \o sFinance>>},
        i \in {<<>>, <<id6014>>, <<id6015 \o <<" ">>, id6014>>},
        p \in {<<>>, sGames},
        t \in {<<>>, <<sFinance>>} }

NoLabel == [done |-> FALSE, label |-> <<>>]

InitClassify ==
    /\ input \in [themes : [Rules : SeqsOf(ClassifyRules, 1, MaxRules),
                            RiskOn : {<<>>}, RiskOff : {<<>>}],
                  in : ClassifyInputs]
    /\ theme = NoLabel

\* One call of NewThemeClassifier(themes).Classify(in)
DoClassify ==
    /\ ~theme.done
    /\ theme' = [done |-> TRUE,
                 label |-> Classify(NewThemeClassifier(input.themes), input.in)]
    /\ UNCHANGED input

-----------------------------------------------------------------------------
(* Statistics utilities and the trend analyzer (package analysis) *)

\* float64(n): an integer as a fixed-point value
Fix(n) == n * Scale

\* The product and the quotient of two fixed-point values
Mul(a, b) == (a * b) \div Scale
Quot(a, b) == (a * Scale) \div b

\* A float64 that a flag can set or a score can become: a finite fixed-point
\* value, an infinity (v is its sign) or NaN
Fin(n) == [k |-> "fin", v |-> n]
Inf(sign) == [k |-> "inf", v |-> sign]
NaN == [k |-> "nan", v |-> 0]
Sign(n) == IF n > 0 THEN 1 ELSE IF n < 0 THEN 0 - 1 ELSE 0

\* float64 +, unary -, -, *, division by a positive count, > and ==
FAdd(a, b) ==
    IF a.k = "nan" \/ b.k = "nan" THEN NaN
    ELSE IF a.k = "inf" /\ b.k = "inf" THEN (IF a.v = b.v THEN a ELSE NaN)
    ELSE IF a.k = "inf" THEN a
    ELSE IF b.k = "inf" THEN b
    ELSE Fin(a.v + b.v)
FNeg(a) == IF a.k = "nan" THEN NaN ELSE [a EXCEPT !.v = 0 - a.v]
FSub(a, b) == FAdd(a, FNeg(b))
FMul(a, b) ==
    IF a.k = "nan" \/ b.k = "nan" THEN NaN
    ELSE IF a.k = "inf" \/ b.k = "inf"
         THEN (IF a.v = 0 \/ b.v = 0 THEN NaN ELSE Inf(Sign(a.v) * Sign(b.v)))
    ELSE Fin(Mul(a.v, b.v))
FDivN(a, n) == IF a.k = "fin" THEN Fin(a.v \div n) ELSE a
FGt(a, b) ==
    IF a.k = "nan" \/ b.k = "nan" THEN FALSE
    ELSE IF a.k = "inf" THEN a.v = 1 /\ b # a
    ELSE IF b.k = "inf" THEN b.v = 0 - 1
    ELSE a.v > b.v
FEq(a, b) == a.k # "nan" /\ b.k # "nan" /\ a = b

\* The sum of a list of float64 values, added in order from 0
RECURSIVE FSumFrom(_, _, _)
FSumFrom(s, i, acc) == IF i > Len(s) THEN acc ELSE FSumFrom(s, i + 1, FAdd(acc, s[i]))
FSum(s) == FSumFrom(s, 1, Fin(0))

\* math.Sqrt on a value in units of 1/Scale^2, giving units of 1/Scale
RECURSIVE sqrtBetween(_, _, _)
sqrtBetween(x, lo, hi) ==
    IF lo >= hi THEN lo
    ELSE LET mid == (lo + hi + 1) \div 2
         IN  IF mid * mid <= x THEN sqrtBetween(x, mid, hi)
             ELSE sqrtBetween(x, lo, mid - 1)

Sqrt(x) == sqrtBetween(x, 0, x)

\* type NullInt, and NullableInt
NullInt == [Value |-> 0, Valid |-> FALSE]
NullableInt(v) == [Value |-> v, Valid |-> TRUE]

\* meanStd: population mean and standard deviation, (0, 0) for no values
meanStd(values) ==
    IF Len(values) = 0 THEN [mean |-> 0, std |-> 0]
    ELSE LET n        == Len(values)
             mean     == SumSeq(values) \div n
             variance == SumSeq([i \in 1..n |-> (values[i] - mean) * (values[i] - mean)]) \div n
         IN  [mean |-> mean, std |-> Sqrt(variance)]

\* zscore
zscore(value, mean, std) ==
    IF std = 0 THEN 0 ELSE Quot(value - mean, std)

\* A plausible fault: the full current count whenever there is one
computeRatingDeltaNoPrev(current, prev, prevOk) ==
    IF ~current.RatingCount.Valid THEN 0 ELSE current.RatingCount.Value

\* computeRatingDelta
computeRatingDelta(current, prev, prevOk) ==
    IF ~current.RatingCount.Valid THEN 0
    ELSE IF prevOk /\ prev.RatingCount.Valid
         THEN current.RatingCount.Value - prev.RatingCount.Value
         ELSE current.RatingCount.Value

\* One step of sortTrends' inner loop, and the two loops
RECURSIVE sortInner(_, _, _)
sortInner(out, i, j) ==
    IF j > Len(out) THEN out
    ELSE IF FGt(out[j].TrendScore, out[i].TrendScore)
         THEN sortInner([out EXCEPT ![i] = out[j], ![j] = out[i]], i, j + 1)
         ELSE sortInner(out, i, j + 1)

RECURSIVE sortOuter(_, _)
sortOuter(out, i) ==
    IF i > Len(out) THEN out ELSE sortOuter(sortInner(out, i, i + 1), i + 1)

\* A plausible fault: the trends are returned in the order of the items
sortTrendsInPlace(items) == items

\* sortTrends (sortThemeScores is the same loop on ThemeScore.Score)
sortTrends(items) == sortOuter(items, 1)

\* averageThemes: the mean of the scores of the listed themes that have one
averageThemes(scores, themes) ==
    IF Len(themes) = 0 THEN Fin(0)
    ELSE LET present == SelectSeq(themes, LAMBDA t : t \in DOMAIN scores)
             sum     == FSum([k \in 1..Len(present) |-> scores[present[k]]])
         IN  IF Len(present) = 0 THEN Fin(0) ELSE FDivN(sum, Len(present))

\* prevMap of AnalyzeTrends: a later item with the same AppID replaces an earlier one
prevMapOf(previousItems) ==
    [id \in {previousItems[i].AppID : i \in 1..Len(previousItems)} |->
        previousItems[CHOOSE i \in 1..Len(previousItems) :
            /\ previousItems[i].AppID = id
            /\ \A j \in 1..Len(previousItems) : previousItems[j].AppID = id => j <= i]]

\* A plausible fault: a missing previous rank read as the zero value
prevRankZero(limit, prevMap, item) ==
    IF item.AppID \in DOMAIN prevMap THEN prevMap[item.AppID].Rank ELSE 0

\* prevRank in the first loop of AnalyzeTrends
prevRankOf(limit, prevMap, item) ==
    IF item.AppID \in DOMAIN prevMap THEN prevMap[item.AppID].Rank ELSE limit + 1

\* The first loop of AnalyzeTrends: one AppTrend per current item, not yet scored
trendOf(limit, prevMap, rules, item) ==
    LET ok   == item.AppID \in DOMAIN prevMap
        prev == IF ok THEN prevMap[item.AppID]
                ELSE [Rank |-> 0, AppID |-> "", RatingCount |-> NullInt]
    IN  [AppID       |-> item.AppID,
         AppName     |-> item.AppName,
         Rank        |-> item.Rank,
         RankDelta   |-> prevRankOf(limit, prevMap, item) - item.Rank,
         RatingCount |-> item.RatingCount.Value,
         RatingDelta |-> computeRatingDelta(item, prev, ok),
         TrendScore  |-> Fin(0),
         Theme       |-> Classify(rules, ThemeInput(item.AppName, item.Genres,
                             item.GenreIDs, item.PrimaryGenre, item.ItunesGenres)),
         NewEntry    |-> ~ok]

\* The first loop of AnalyzeTrends from item i on: trends are appended in the
\* order of latestItems
RECURSIVE trendsFrom(_, _, _, _, _)
trendsFrom(limit, prevMap, rules, latestItems, i) ==
    IF i > Len(latestItems) THEN <<>>
    ELSE <<trendOf(limit, prevMap, rules, latestItems[i])>>
             \o trendsFrom(limit, prevMap, rules, latestItems, i + 1)

\* A plausible fault: every item is given the new-entry bonus
scoreOfBonusForAll(trend, rank, review, c) ==
    LET rankZ   == Fin(zscore(Fix(trend.RankDelta), rank.mean, rank.std))
        reviewZ == Fin(zscore(Fix(trend.RatingDelta), review.mean, review.std))
    IN  FAdd(FAdd(FMul(c.RankWeight, rankZ), FMul(c.ReviewWeight, reviewZ)), c.NewEntryBonus)

\* The second loop of AnalyzeTrends: the score of one trend
scoreOf(trend, rank, review, c) ==
    LET rankZ   == Fin(zscore(Fix(trend.RankDelta), rank.mean, rank.std))
        reviewZ == Fin(zscore(Fix(trend.RatingDelta), review.mean, review.std))
        score   == FAdd(FMul(c.RankWeight, rankZ), FMul(c.ReviewWeight, reviewZ))
    IN  IF trend.NewEntry THEN FAdd(score, c.NewEntryBonus) ELSE score

\* The second loop of AnalyzeTrends from trend i on: each TrendScore is set
RECURSIVE scoredFrom(_, _, _, _, _)
scoredFrom(raw, rank, review, c, i) ==
    IF i > Len(raw) THEN <<>>
    ELSE <<[raw[i] EXCEPT !.TrendScore = scoreOf(raw[i], rank, review, c)]>>
             \o scoredFrom(raw, rank, review, c, i + 1)

\* themeScores of AnalyzeTrends: the mean score of each theme that has a trend
themeScoresOf(trends) ==
    [t \in {trends[i].Theme : i \in 1..Len(trends)} |->
        LET mine == SelectSeq(trends, LAMBDA x : x.Theme = t)
        IN  FDivN(FSum([k \in 1..Len(mine) |-> mine[k].TrendScore]), Len(mine))]

\* rankDeltas and reviewDeltas of AnalyzeTrends: what the z-scores are taken over
rankDeltas(raw) == [i \in 1..Len(raw) |-> Fix(raw[i].RankDelta)]
reviewDeltas(raw) == [i \in 1..Len(raw) |-> Fix(raw[i].RatingDelta)]

\* The second loop of AnalyzeTrends over the trends of the first
scoreAll(raw, c) ==
    scoredFrom(raw, meanStd(rankDeltas(raw)), meanStd(reviewDeltas(raw)), c, 1)

\* A plausible fault: the rotation index is the risk-off score minus the
\* risk-on score
trendResultOffMinusOn(trends, scores, riskOnScore, riskOffScore) ==
    [Trends        |-> trends,
     ThemeScores   |-> scores,
     RiskOnScore   |-> riskOnScore,
     RiskOffScore  |-> riskOffScore,
     RotationIndex |-> FSub(riskOffScore, riskOnScore)]

\* The TrendResult AnalyzeTrends returns
trendResult(trends, scores, riskOnScore, riskOffScore) ==
    [Trends        |-> trends,
     ThemeScores   |-> scores,
     RiskOnScore   |-> riskOnScore,
     RiskOffScore  |-> riskOffScore,
     RotationIndex |-> FSub(riskOnScore, riskOffScore)]

\* The end of AnalyzeTrends: the two risk scores of the theme scores
riskScored(trends, scores, themes) ==
    trendResult(trends, scores, averageThemes(scores, themes.RiskOn),
                averageThemes(scores, themes.RiskOff))

\* AnalyzeTrends from its sort on: the theme scores of the sorted trends
themeScored(trends, themes) == riskScored(trends, themeScoresOf(trends), themes)

\* AnalyzeTrends
AnalyzeTrends(latest, previous, latestItems, previousItems, c, themes) ==
    themeScored(sortTrends(scoreAll(trendsFrom(latest.Limit, prevMapOf(previousItems),
                                               NewThemeClassifier(themes), latestItems, 1),
                                    c)),
                themes)

-----------------------------------------------------------------------------
(* The store (package store) and the feeds it is filled from *)

Sep == "|"

\* joinList
RECURSIVE joinList(_)
joinList(values) ==
    IF Len(values) = 0 THEN <<>>
    ELSE IF Len(values) = 1 THEN values[1]
    ELSE values[1] \o <<Sep>> \o joinList(Tail(values))

\* strings.Split(value, "|") taking the text before the first separator first
RECURSIVE splitFrom(_, _)
splitFrom(value, acc) ==
    IF value = <<>> THEN <<acc>>
    ELSE IF Head(value) = Sep THEN <<acc>> \o splitFrom(Tail(value), <<>>)
    ELSE splitFrom(Tail(value), Append(acc, Head(value)))

\* splitList
splitList(value) == IF value = <<>> THEN <<>> ELSE splitFrom(value, <<>>)

\* What the RSS feed says of each app (apple.RSSApp, after ExtractGenres)
Apps == {"a1", "a2", "a3"}

RSSApp(id) ==
    CASE id = "a1" -> [ID |-> id, Name |-> sGoPay, Genres |-> <<sGames>>, GenreIDs |-> <<id6014>>]
      [] id = "a2" -> [ID |-> id, Name |-> sBank, Genres |-> <<sFinance>>, GenreIDs |-> <<id6015>>]
      [] OTHER     -> [ID |-> id, Name |-> sMaps, Genres |-> <<sTravel>>, GenreIDs |-> <<id6003>>]

\* What an iTunes lookup of each app answers when it answers (apple.ItunesApp)
ItunesApp(id, count) ==
    CASE id = "a1" -> [PrimaryGenreName |-> sGames, Genres |-> <<sGames, sFinance>>,
                       UserRatingCount |-> count]
      [] id = "a2" -> [PrimaryGenreName |-> sFinance, Genres |-> <<sFinance>>,
                       UserRatingCount |-> count]
      [] OTHER     -> [PrimaryGenreName |-> sTravel, Genres |-> <<sTravel>>,
                       UserRatingCount |-> count]

\* The outcomes of apple.LookupApp for one item: 0 is a failed or empty lookup,
\* n > 0 a match with that rating count
Lookups == 0..MaxRating

\* The store.ChartItem fetchSnapshot builds for the item at idx (rank idx + 1)
chartItemOf(snapshotID, rank, id, lookup) ==
    LET item == RSSApp(id)
        base == [SnapshotID   |-> snapshotID,
                 Rank         |-> rank,
                 AppID        |-> item.ID,
                 AppName      |-> item.Name,
                 Genres       |-> item.Genres,
                 GenreIDs     |-> item.GenreIDs,
                 PrimaryGenre |-> <<>>,
                 ItunesGenres |-> <<>>,
                 RatingCount  |-> NullInt]
        meta == ItunesApp(id, lookup)
    IN  IF lookup = 0 THEN base
        ELSE [base EXCEPT !.PrimaryGenre = meta.PrimaryGenreName,
                          !.ItunesGenres = meta.Genres,
                          !.RatingCount  = NullableInt(meta.UserRatingCount)]

\* The row InsertChartItem writes
rowOf(item) ==
    [item EXCEPT !.Genres = joinList(@), !.GenreIDs = joinList(@),
                 !.ItunesGenres = joinList(@)]

\* The store.ChartItem GetSnapshotItems scans from a row
itemOf(row) ==
    [row EXCEPT !.Genres = splitList(@), !.GenreIDs = splitList(@),
                !.ItunesGenres = splitList(@)]

\* A plausible fault: the first failed lookup ends the fetch
rowsUntilFailure(snapshotID, feed, lookups) ==
    LET ok == {i \in 1..Len(feed) : \A j \in 1..i : lookups[j] # 0}
    IN  [i \in 1..Cardinality(ok) |-> rowOf(chartItemOf(snapshotID, i, feed[i], lookups[i]))]

\* The rows of a snapshot whose feed and lookups are given, ranks 1..Len(feed)
rowsOf(snapshotID, feed, lookups) ==
    [i \in 1..Len(feed) |-> rowOf(chartItemOf(snapshotID, i, feed[i], lookups[i]))]

\* GetSnapshotItems: the rows of the snapshot, ORDER BY rank ASC
RECURSIVE insertByRank(_, _)
insertByRank(sorted, item) ==
    IF sorted = <<>> THEN <<item>>
    ELSE IF item.Rank < Head(sorted).Rank THEN <<item>> \o sorted
    ELSE <<Head(sorted)>> \o insertByRank(Tail(sorted), item)

RECURSIVE sortByRank(_)
sortByRank(rows) ==
    IF rows = <<>> THEN <<>>
    ELSE insertByRank(sortByRank(SubSeq(rows, 1, Len(rows) - 1)), rows[Len(rows)])

GetSnapshotItems(table, snapshotID) ==
    LET rows == IF snapshotID \in DOMAIN table THEN table[snapshotID] ELSE <<>>
        read == [i \in 1..Len(rows) |-> itemOf(rows[i])]
    IN  sortByRank(read)

\* The rows of `table`, a sequence of snapshots, with the greatest CollectedAt
newest(table) ==
    CHOOSE s \in Range(table) : \A t \in Range(table) : t.CollectedAt <= s.CollectedAt

\* GetLatestSnapshot: ORDER BY collected_at DESC LIMIT 1; sql.ErrNoRows if none
GetLatestSnapshot(table) ==
    IF table = <<>> THEN [err |-> "sql: no rows in result set"]
    ELSE [err |-> "", snapshot |-> newest(table)]

\* GetPreviousSnapshot: the latest snapshot collected before `before`
GetPreviousSnapshot(table, before) ==
    LET earlier == SelectSeq(table, LAMBDA s : s.CollectedAt < before)
    IN  IF earlier = <<>> THEN [err |-> "sql: no rows in result set"]
        ELSE [err |-> "", snapshot |-> newest(earlier)]

\* ListSnapshots: the snapshots of the market and chart, collection time ascending
RECURSIVE ListSnapshots(_)
ListSnapshots(table) ==
    IF table = <<>> THEN <<>>
    ELSE LET first == CHOOSE s \in Range(table) :
                          \A t \in Range(table) : s.CollectedAt <= t.CollectedAt
         IN  <<first>> \o ListSnapshots(SelectSeq(table, LAMBDA s : s # first))

-----------------------------------------------------------------------------
(* The theme rules file *)

\* defaultThemeConfig
defaultThemeConfig ==
    [Rules |-> <<
        ThemeRule(<<"g", "a", "m", "e", "s">>,
                  <<<<"6", "0", "1", "4">>>>,
                  <<<<"g", "a", "m", "e", "s">>>>,
                  <<>>),
        ThemeRule(<<"e", "n", "t", "e", "r", "t", "a", "i", "n", "m", "e", "n", "t">>,
                  <<<<"6", "0", "1", "6">>, <<"6", "0", "1", "1">>, <<"6", "0", "0", "8">>, <<"6", "0", "0", "5">>>>,
                  <<<<"e", "n", "t", "e", "r", "t", "a", "i", "n", "m", "e", "n", "t">>, <<"m", "u", "s", "i", "c">>, <<"p", "h", "o", "t", "o">>, <<"s", "o", "c", "i", "a", "l", " ", "n", "e", "t", "w", "o", "r", "k", "i", "n", "g">>>>,
                  <<>>),
        ThemeRule(<<"c", "o", "m", "m", "e", "r", "c", "e">>,
                  <<<<"6", "0", "2", "4">>, <<"6", "0", "2", "3">>>>,
                  <<<<"s", "h", "o", "p", "p", "i", "n", "g">>, <<"f", "o", "o", "d">>, <<"d", "r", "i", "n", "k">>, <<"f", "o", "o", "d", " ", "&", " ", "d", "r", "i", "n", "k">>>>,
                  <<>>),
        ThemeRule(<<"t", "r", "a", "v", "e", "l">>,
                  <<<<"6", "0", "0", "3">>, <<"6", "0", "1", "0">>>>,
                  <<<<"t", "r", "a", "v", "e", "l">>, <<"n", "a", "v", "i", "g", "a", "t", "i", "o", "n">>>>,
                  <<>>),
        ThemeRule(<<"f", "i", "n", "a", "n", "c", "e">>,
                  <<<<"6", "0", "1", "5">>>>,
                  <<<<"f", "i", "n", "a", "n", "c", "e">>>>,
                  <<>>),
        ThemeRule(<<"p", "r", "o", "d", "u", "c", "t", "i", "v", "i", "t", "y">>,
                  <<<<"6", "0", "0", "7">>, <<"6", "0", "0", "2">>, <<"6", "0", "0", "0">>>>,
                  <<<<"p", "r", "o", "d", "u", "c", "t", "i", "v", "i", "t", "y">>, <<"u", "t", "i", "l", "i", "t", "i", "e", "s">>, <<"b", "u", "s", "i", "n", "e", "s", "s">>>>,
                  <<>>),
        ThemeRule(<<"e", "d", "u", "c", "a", "t", "i", "o", "n">>,
                  <<<<"6", "0", "1", "7">>>>,
                  <<<<"e", "d", "u", "c", "a", "t", "i", "o", "n">>>>,
                  <<>>),
        ThemeRule(<<"h", "e", "a", "l", "t", "h">>,
                  <<<<"6", "0", "1", "3">>, <<"6", "0", "1", "8">>>>,
                  <<<<"h", "e", "a", "l", "t", "h">>, <<"f", "i", "t", "n", "e", "s", "s">>, <<"m", "e", "d", "i", "c", "a", "l">>>>,
                  <<>>),
        ThemeRule(<<"n", "e", "w", "s">>,
                  <<<<"6", "0", "0", "9">>, <<"6", "0", "0", "6">>, <<"6", "0", "0", "1">>>>,
                  <<<<"n", "e", "w", "s">>, <<"r", "e", "f", "e", "r", "e", "n", "c", "e">>, <<"w", "e", "a", "t", "h", "e", "r">>>>,
                  <<>>),
        ThemeRule(<<"s", "p", "o", "r", "t", "s">>,
                  <<<<"6", "0", "0", "4">>>>,
                  <<<<"s", "p", "o", "r", "t", "s">>>>,
                  <<>>) >>,
     RiskOn  |-> <<<<"g", "a", "m", "e", "s">>, <<"e", "n", "t", "e", "r", "t", "a", "i", "n", "m", "e", "n", "t">>, <<"c", "o", "m", "m", "e", "r", "c", "e">>, <<"t", "r", "a", "v", "e", "l">>, <<"s", "p", "o", "r", "t", "s">>>>,
     RiskOff |-> <<<<"p", "r", "o", "d", "u", "c", "t", "i", "v", "i", "t", "y">>, <<"e", "d", "u", "c", "a", "t", "i", "o", "n">>, <<"h", "e", "a", "l", "t", "h">>, <<"f", "i", "n", "a", "n", "c", "e">>, <<"n", "e", "w", "s">>>>]

\* The states of the file at themePath: absent, present but unreadable,
\* readable but not JSON, or JSON holding a ThemeConfig
FileAbsent     == [kind |-> "absent"]
FileUnreadable == [kind |-> "unreadable"]
FileCorrupt    == [kind |-> "corrupt"]
FileJSON(c)    == [kind |-> "json", cfg |-> c]

\* A plausible fault: a file with an empty rules array is returned as it is
LoadThemeConfigNoFallback(file) ==
    IF file.kind = "absent" THEN [err |-> "", cfg |-> defaultThemeConfig]
    ELSE IF file.kind = "unreadable" THEN [err |-> "permission denied"]
    ELSE IF file.kind = "corrupt" THEN [err |-> "invalid character"]
    ELSE [err |-> "", cfg |-> file.cfg]

\* LoadThemeConfig
LoadThemeConfig(file) ==
    IF file.kind = "absent" THEN [err |-> "", cfg |-> defaultThemeConfig]
    ELSE IF file.kind = "unreadable" THEN [err |-> "permission denied"]
    ELSE IF file.kind = "corrupt" THEN [err |-> "invalid character"]
    ELSE IF Len(file.cfg.Rules) = 0 THEN [err |-> "", cfg |-> defaultThemeConfig]
    ELSE [err |-> "", cfg |-> file.cfg]

\* A themes file with a capitalised label, a keyword rule and both risk groups
customThemes ==
    [Rules   |-> << ThemeRule(sGames, <<id6014>>, <<>>, <<>>),
                    ThemeRule(ToLower(sFinance), <<>>, <<sFinance>>,
                              <<<<"p", "a", "y">>>>) >>,
     RiskOn  |-> <<sGames>>,
     RiskOff |-> <<ToLower(sFinance)>>]

-----------------------------------------------------------------------------
(* The time-series aggregator (package main, timeseries_json.go) *)

\* The characters of the model in byte order, for sort.Strings
Ascii ==
    << " ", "&", "0", "1", "2", "3", "4", "5", "6", "7", "8", "9",
       "A", "B", "F", "G", "K", "M", "O", "P", "T", "Y",
       "a", "b", "c", "d", "e", "f", "g", "h", "i", "k", "l", "m", "n", "o",
       "p", "r", "s", "t", "u", "v", "w", "x", "y", "z", "|" >>

Ord(c) == CHOOSE i \in 1..Len(Ascii) : Ascii[i] = c

\* s < t as Go compares strings
RECURSIVE Less(_, _)
Less(s, t) ==
    IF t = <<>> THEN FALSE
    ELSE IF s = <<>> THEN TRUE
    ELSE IF Head(s) = Head(t) THEN Less(Tail(s), Tail(t))
    ELSE Ord(Head(s)) < Ord(Head(t))

RECURSIVE insertString(_, _)
insertString(sorted, s) ==
    IF sorted = <<>> THEN <<s>>
    ELSE IF Less(s, Head(sorted)) THEN <<s>> \o sorted
    ELSE <<Head(sorted)>> \o insertString(Tail(sorted), s)

\* sort.Strings
RECURSIVE sortStrings(_)
sortStrings(list) ==
    IF list = <<>> THEN <<>>
    ELSE insertString(sortStrings(Tail(list)), Head(list))

\* The loop of uniqueThemes over the rules, from the themes gathered so far
RECURSIVE gatherThemes(_, _)
gatherThemes(rules, themes) ==
    IF rules = <<>> THEN themes
    ELSE LET t == Head(rules).Theme
         IN  IF t = <<>> \/ t \in Range(themes) THEN gatherThemes(Tail(rules), themes)
             ELSE gatherThemes(Tail(rules), Append(themes, t))

\* uniqueThemes: "other" and the rules' labels, each once, sorted
uniqueThemes(themes) == sortStrings(gatherThemes(themes.Rules, <<sOther>>))

SeoulOffset == 9
HoursPerDay == 24

\* time.LoadLocation("Asia/Seoul"): the zone, or time.UTC when it fails; a zone
\* is its offset from UTC in hours
Locations == {SeoulOffset, 0}

\* snapshot.CollectedAt.In(loc).Format("2006-01-02"): the calendar day in loc,
\* as a day number
dateKey(snapshot, loc) == (snapshot.CollectedAt + loc) \div HoursPerDay

\* dateIndex of groupSnapshotsByDate: the last index of each day
dateIndexOf(snaps, loc) ==
    [k \in {dateKey(snaps[i], loc) : i \in 1..Len(snaps)} |->
        CHOOSE i \in 1..Len(snaps) :
            /\ dateKey(snaps[i], loc) = k
            /\ \A j \in 1..Len(snaps) : dateKey(snaps[j], loc) = k => j <= i]

\* The second loop of groupSnapshotsByDate, from index i on
RECURSIVE groupFrom(_, _, _, _, _, _)
groupFrom(snaps, items, loc, dateIndex, seen, i) ==
    IF i > Len(snaps) THEN [snapshots |-> <<>>, items |-> <<>>]
    ELSE LET key == dateKey(snaps[i], loc)
         IN  IF dateIndex[key] # i \/ key \in seen
             THEN groupFrom(snaps, items, loc, dateIndex, seen, i + 1)
             ELSE LET rest == groupFrom(snaps, items, loc, dateIndex, seen \cup {key}, i + 1)
                  IN  [snapshots |-> <<snaps[i]>> \o rest.snapshots,
                       items     |-> <<items[i]>> \o rest.items]

\* A plausible fault: the first snapshot of each day is kept, not the last
groupKeepFirst(snaps, items, loc) ==
    LET keep == {i \in 1..Len(snaps) :
                    \A j \in 1..(i - 1) : dateKey(snaps[j], loc) # dateKey(snaps[i], loc)}
        idx  == SelectSeq([i \in 1..Len(snaps) |-> i], LAMBDA i : i \in keep)
    IN  [snapshots |-> [k \in 1..Len(idx) |-> snaps[idx[k]]],
         items     |-> [k \in 1..Len(idx) |-> items[idx[k]]]]

\* A plausible fault: the second loop starts at the second snapshot, a lone
\* snapshot being returned as it is
groupSkipFirst(snaps, items, loc) ==
    IF Len(snaps) <= 1 THEN [snapshots |-> snaps, items |-> items]
    ELSE groupFrom(snaps, items, loc, dateIndexOf(snaps, loc), {}, 2)

\* groupSnapshotsByDate, the zone loaded being loc
groupSnapshotsByDate(snaps, items, loc) ==
    IF Len(snaps) = 0 THEN [snapshots |-> snaps, items |-> items]
    ELSE groupFrom(snaps, items, loc, dateIndexOf(snaps, loc), {}, 1)

\* A *int that is nil, and one that points at v
Nil == [Valid |-> FALSE, Value |-> 0]
Ptr(v) == [Valid |-> TRUE, Value |-> v]

\* A plausible fault: a day without the app takes rank 0 and count 0, not nil
historyOfZeroFilled(app, itemMaps, n) ==
    [app EXCEPT
        !.Ranks = [k \in 1..n |->
            IF k <= Len(itemMaps) /\ app.AppID \in DOMAIN itemMaps[k]
            THEN Ptr(itemMaps[k][app.AppID].Rank) ELSE Ptr(0)],
        !.RatingCounts = [k \in 1..n |->
            IF k <= Len(itemMaps) /\ app.AppID \in DOMAIN itemMaps[k]
            THEN Ptr(itemMaps[k][app.AppID].RatingCount.Value) ELSE Ptr(0)]]

\* The last loop of buildTopApps: the history of one app over the snapshots
historyOf(app, itemMaps, n) ==
    [app EXCEPT
        !.Ranks = [k \in 1..n |->
            IF k <= Len(itemMaps) /\ app.AppID \in DOMAIN itemMaps[k]
            THEN Ptr(itemMaps[k][app.AppID].Rank) ELSE Nil],
        !.RatingCounts = [k \in 1..n |->
            IF /\ k <= Len(itemMaps)
               /\ app.AppID \in DOMAIN itemMaps[k]
               /\ itemMaps[k][app.AppID].RatingCount.Valid
            THEN Ptr(itemMaps[k][app.AppID].RatingCount.Value) ELSE Nil]]

\* A plausible fault: the list is padded to the requested length
buildTopAppsPadded(snapshotItems, snaps, topN) ==
    IF Len(snapshotItems) = 0 THEN <<>>
    ELSE LET latestItems == snapshotItems[Len(snapshotItems)]
             itemMaps    == [k \in 1..Len(snapshotItems) |-> prevMapOf(snapshotItems[k])]
         IN  [i \in 1..topN |->
                 IF i <= Len(latestItems)
                 THEN historyOf([AppID |-> latestItems[i].AppID,
                                 AppName |-> latestItems[i].AppName,
                                 Ranks |-> <<>>, RatingCounts |-> <<>>],
                                itemMaps, Len(snaps))
                 ELSE [AppID |-> "", AppName |-> <<>>,
                       Ranks |-> [k \in 1..Len(snaps) |-> Nil],
                       RatingCounts |-> [k \in 1..Len(snaps) |-> Nil]]]

\* buildTopApps
buildTopApps(snapshotItems, snaps, topN) ==
    IF Len(snapshotItems) = 0 THEN <<>>
    ELSE LET latestItems == snapshotItems[Len(snapshotItems)]
             n           == IF topN > Len(latestItems) THEN Len(latestItems) ELSE topN
             itemMaps    == [k \in 1..Len(snapshotItems) |-> prevMapOf(snapshotItems[k])]
         IN  [i \in 1..n |->
                 historyOf([AppID |-> latestItems[i].AppID,
                            AppName |-> latestItems[i].AppName,
                            Ranks |-> <<>>, RatingCounts |-> <<>>],
                           itemMaps, Len(snaps))]

\* result.ThemeScores[theme]: the zero value for a missing key
scoreAt(scores, t) == IF t \in DOMAIN scores THEN scores[t] ELSE Fin(0)

\* A plausible fault: every day is compared with the first retained day
previousOfFirst(grouped, idx) == 1

\* The snapshot and items the loop of computeTimeSeries compares day idx with
previousOf(grouped, idx) == IF idx > 1 THEN idx - 1 ELSE idx

\* A plausible fault: the first day is compared with an empty previous day
transitionNoHistory(grouped, idx, c, themes) ==
    AnalyzeTrends(grouped.snapshots[idx], grouped.snapshots[idx],
                  grouped.items[idx],
                  IF idx > 1 THEN grouped.items[idx - 1] ELSE <<>>,
                  c, themes)

\* The call of AnalyzeTrends in the loop of computeTimeSeries, for day idx
transition(grouped, idx, c, themes) ==
    AnalyzeTrends(grouped.snapshots[idx], grouped.snapshots[previousOf(grouped, idx)],
                  grouped.items[idx], grouped.items[previousOf(grouped, idx)],
                  c, themes)

NoPayload == [none |-> TRUE]
NoCall == [status |-> "none", err |-> "", payload |-> NoPayload]
Failed(e) == [status |-> "error", err |-> e, payload |-> NoPayload]
Returned(p) == [status |-> "ok", err |-> "", payload |-> p]

\* A plausible fault: each round puts its entries before those already there
appendDayInFront(snapshot, today, rest, themeNames) ==
    [results       |-> rest.results \o <<today>>,
     Dates         |-> rest.Dates \o <<snapshot.CollectedAt>>,
     RotationIndex |-> rest.RotationIndex \o <<today.RotationIndex>>,
     RiskOnScore   |-> rest.RiskOnScore \o <<today.RiskOnScore>>,
     RiskOffScore  |-> rest.RiskOffScore \o <<today.RiskOffScore>>,
     ThemeScores   |-> [t \in Range(themeNames) |->
                           rest.ThemeScores[t] \o <<scoreAt(today.ThemeScores, t)>>]]

\* One round of the loop of computeTimeSeries: the day's date and the fields
\* of its TrendResult lead what the later rounds append; `results` keeps the
\* TrendResult itself
appendDay(snapshot, today, rest, themeNames) ==
    [results       |-> <<today>> \o rest.results,
     Dates         |-> <<snapshot.CollectedAt>> \o rest.Dates,
     RotationIndex |-> <<today.RotationIndex>> \o rest.RotationIndex,
     RiskOnScore   |-> <<today.RiskOnScore>> \o rest.RiskOnScore,
     RiskOffScore  |-> <<today.RiskOffScore>> \o rest.RiskOffScore,
     ThemeScores   |-> [t \in Range(themeNames) |->
                           <<scoreAt(today.ThemeScores, t)>> \o rest.ThemeScores[t]]]

\* The loop of computeTimeSeries over the days, from day idx on: one
\* AnalyzeTrends per day
RECURSIVE seriesFrom(_, _, _, _, _)
seriesFrom(grouped, idx, c, themes, themeNames) ==
    IF idx > Len(grouped.snapshots)
    THEN [results |-> <<>>, Dates |-> <<>>, RotationIndex |-> <<>>,
          RiskOnScore |-> <<>>, RiskOffScore |-> <<>>,
          ThemeScores |-> [t \in Range(themeNames) |-> <<>>]]
    ELSE appendDay(grouped.snapshots[idx], transition(grouped, idx, c, themes),
                   seriesFrom(grouped, idx + 1, c, themes, themeNames), themeNames)

\* The timeSeriesPayload of the grouped snapshots; `grouped` keeps what
\* groupSnapshotsByDate returned
payloadOf(grouped, c, themes, topN) ==
    [grouped |-> grouped,
     Limit   |-> grouped.snapshots[Len(grouped.snapshots)].Limit,
     TopApps |-> buildTopApps(grouped.items, grouped.snapshots, topN)]
    @@ seriesFrom(grouped, 1, c, themes, uniqueThemes(themes))

\* computeTimeSeries
computeTimeSeries(table, rows, file, c, topN, loc) ==
    LET listed == ListSnapshots(table)
        loaded == LoadThemeConfig(file)
    IN  IF Len(listed) = 0 THEN Failed("no snapshots found")
        ELSE IF loaded.err # "" THEN Failed(loaded.err)
        ELSE Returned(payloadOf(
                 groupSnapshotsByDate(listed,
                     [i \in 1..Len(listed) |-> GetSnapshotItems(rows, listed[i].ID)], loc),
                 c, loaded.cfg, topN))

-----------------------------------------------------------------------------
(* The report (package main, report_compute.go) *)

\* SortThemeScores: the entries of the map in the order the map yields them
\* (`order` lists the labels, those of `scores` among them), then sorted by
\* score descending
SortThemeScores(scores, order) ==
    LET keys == SelectSeq(order, LAMBDA t : t \in DOMAIN scores)
        list == [k \in 1..Len(keys) |-> [Theme |-> keys[k], TrendScore |-> scores[keys[k]]]]
        done == sortTrends(list)
    IN  [k \in 1..Len(done) |-> [Theme |-> done[k].Theme, Score |-> done[k].TrendScore]]

\* The labels the file's rules give the items the store holds: the keys the
\* theme map of a report can have
LabelsOf(file, rows) ==
    LET loaded == LoadThemeConfig(file)
    IN  IF loaded.err # "" THEN {}
        ELSE {Classify(NewThemeClassifier(loaded.cfg),
                       ThemeInput(item.AppName, item.Genres, item.GenreIDs,
                                  item.PrimaryGenre, item.ItunesGenres)) :
                 item \in UNION {Range(GetSnapshotItems(rows, id)) : id \in DOMAIN rows}}

\* The orders in which a map keyed by the labels in S may be ranged over
RangeOrders(S) ==
    {o \in [1..Cardinality(S) -> S] : \A i, j \in DOMAIN o : i # j => o[i] # o[j]}

\* The reportPayload computeReport fills from the TrendResult
reportOf(latest, previous, res, now, order) ==
    [Latest        |-> latest,
     Previous      |-> previous,
     GeneratedAt   |-> now,
     Trends        |-> res.Trends,
     ThemeScores   |-> SortThemeScores(res.ThemeScores, order),
     RiskOnScore   |-> res.RiskOnScore,
     RiskOffScore  |-> res.RiskOffScore,
     RotationIndex |-> res.RotationIndex]

\* computeReport once both snapshots and the theme rules are at hand
reportBetween(latest, previous, rows, themes, c, now, order) ==
    Returned(reportOf(latest, previous,
                      AnalyzeTrends(latest, previous, GetSnapshotItems(rows, latest.ID),
                                    GetSnapshotItems(rows, previous.ID), c, themes),
                      now, order))

\* A plausible fault: a lone snapshot is reported against itself
computeReportLenient(table, rows, file, c, now, order) ==
    LET latest == GetLatestSnapshot(table)
        loaded == LoadThemeConfig(file)
    IN  IF latest.err # "" THEN Failed(latest.err)
        ELSE IF loaded.err # "" THEN Failed(loaded.err)
        ELSE LET prior == GetPreviousSnapshot(table, latest.snapshot.CollectedAt)
             IN  reportBetween(latest.snapshot,
                               IF prior.err # "" THEN latest.snapshot ELSE prior.snapshot,
                               rows, loaded.cfg, c, now, order)

\* computeReport at time `now`, the theme map ranged over in `order`
computeReport(table, rows, file, c, now, order) ==
    LET latest == GetLatestSnapshot(table)
    IN  IF latest.err # "" THEN Failed(latest.err)
        ELSE
          LET previous == GetPreviousSnapshot(table, latest.snapshot.CollectedAt)
              loaded   == LoadThemeConfig(file)
          IN  IF previous.err # ""
              THEN Failed("need at least two snapshots for report")
              ELSE IF loaded.err # "" THEN Failed(loaded.err)
              ELSE reportBetween(latest.snapshot, previous.snapshot, rows, loaded.cfg,
                                 c, now, order)

-----------------------------------------------------------------------------
(* fetchSnapshot (package main, fetch.go) and the program's operations *)

\* --limit: the chart size asked of the feed and recorded in the snapshot
ChartLimit == MaxItems

\* --top: the values of top-N tried: none, one, and the whole chart
TopNs == {0, 1, ChartLimit}

\* The apps the chart of the served market ranks
ChartApps == {"a1", "a2"}

\* What one fetch can bring: the feed's apps in rank order, each with whether
\* its iTunes lookup answers. a1 is always enriched; a2 is enriched when
\* second, not when it leads the chart, and may be off the chart.
Charts ==
    { << <<"a1", TRUE>>, <<"a2", TRUE>> >>,
      << <<"a2", FALSE>>, <<"a1", TRUE>> >>,
      << <<"a1", TRUE>> >> }

\* The hours between one snapshot and the next
Gaps == {6, 18}

\* The rating count iTunes reports at a lookup that answers: it grows as
\* snapshots are taken
ratingNow == Min(Len(snapshots) + 1, MaxRating)

\* The insertions of fetchSnapshot: the snapshot row (InsertSnapshot), then one
\* row per feed item (InsertChartItem), ranks idx + 1
stored(at, chart) ==
    LET id   == Len(snapshots) + 1
        rows == rowsOf(id, [i \in 1..Len(chart) |-> chart[i][1]],
                       [i \in 1..Len(chart) |-> IF chart[i][2] THEN ratingNow ELSE 0])
    IN  [snapshots  |-> Append(snapshots, [ID |-> id, CollectedAt |-> at,
                                           Limit |-> ChartLimit]),
         chartItems |-> [k \in DOMAIN chartItems \cup {id} |->
                            IF k = id THEN rows ELSE chartItems[k]]]

NoPending == report.status = "none" /\ series.status = "none"

\* fetchSnapshot: the feed fails or is empty and nothing is stored, or the
\* snapshot is inserted and then its items, each after its iTunes lookup
FetchSnapshot ==
    /\ NoPending
    /\ Len(snapshots) < MaxSnapshots
    /\ \E gap \in Gaps, chart \in Charts \cup {<<>>} :
          IF chart = <<>>
          THEN UNCHANGED <<snapshots, chartItems>>
          ELSE LET after == stored(clock + gap, chart)
               IN  /\ snapshots' = after.snapshots
                   /\ chartItems' = after.chartItems
    /\ clock' = IF snapshots' = snapshots THEN clock ELSE snapshots'[Len(snapshots')].CollectedAt
    /\ UNCHANGED <<themeFile, cfg, report, series, classifyVars, analyzeVars, loadVars, shareVars, serveVars, chartVars>>

\* GET /api/report, report-json, report: one call of computeReport
Report ==
    /\ NoPending
    /\ \E order \in RangeOrders(LabelsOf(themeFile, chartItems)) :
           report' = computeReport(snapshots, chartItems, themeFile, cfg, clock, order)
    /\ UNCHANGED <<themeFile, cfg, snapshots, chartItems, clock, series,
                   classifyVars, analyzeVars, loadVars, shareVars, serveVars, chartVars>>

\* GET /api/timeseries, timeseries-json: one call of computeTimeSeries; topN and
\* loc are kept beside what it returned
TimeSeries ==
    /\ NoPending
    /\ \E topN \in TopNs, loc \in Locations :
           series' = computeTimeSeries(snapshots, chartItems, themeFile, cfg, topN, loc)
                         @@ [topN |-> topN, loc |-> loc]
    /\ UNCHANGED <<themeFile, cfg, snapshots, chartItems, clock, report,
                   classifyVars, analyzeVars, loadVars, shareVars, serveVars, chartVars>>

\* The payload or the error is written out (enc.Encode, http.Error, the
\* command's exit) and the call is over
Respond ==
    /\ ~NoPending
    /\ report' = NoCall
    /\ series' = NoCall
    /\ UNCHANGED <<themeFile, cfg, snapshots, chartItems, clock,
                   classifyVars, analyzeVars, loadVars, shareVars, serveVars, chartVars>>

\* --rank-weight, --review-weight, --new-bonus: the defaults and another choice
DefaultTrendConfig ==
    [RankWeight |-> Fin(Fix(1)), ReviewWeight |-> Fin(Fix(1)),
     NewEntryBonus |-> Fin(Fix(1) \div 2)]
FiniteConfigs ==
    {DefaultTrendConfig,
     [RankWeight |-> Fin(Fix(2)), ReviewWeight |-> Fin(0), NewEntryBonus |-> Fin(Fix(1))]}
TrendConfigs ==
    FiniteConfigs \cup
    {[RankWeight |-> Inf(1), ReviewWeight |-> Fin(Fix(1)), NewEntryBonus |-> Fin(Fix(1))],
     [RankWeight |-> Fin(Fix(1)), ReviewWeight |-> Fin(Fix(1)), NewEntryBonus |-> NaN]}

\* The flags a serving process is started with
ServeConfigs ==
    {DefaultTrendConfig,
     [RankWeight |-> Inf(1), ReviewWeight |-> Fin(Fix(1)), NewEntryBonus |-> Fin(Fix(1))]}

\* The themes file a serving process finds at --themes and the flags it is
\* started with: a custom file with either choice of flags, or no file (the
\* built-in themes) with the default flags
ServeSetups ==
    {<<FileJSON(customThemes), c>> : c \in ServeConfigs} \cup
    {<<FileAbsent, DefaultTrendConfig>>}

NoArgs == [called |-> FALSE]
NoResult == [returned |-> FALSE]
NoInput == [none |-> TRUE]
NoLoad == [done |-> FALSE]
NoShare == [items |-> <<>>, given |-> <<>>]

\* No call of FetchTopChart is followed
NoChartCall == [pc |-> "none"]

\* No serving process runs
IdleServe ==
    /\ mu = "free"
    /\ fetcher = [pc |-> "off"]
    /\ handlers = <<>>

\* No calls of AnalyzeTrends over shared items are under way
IdleShare ==
    /\ heap = <<>>
    /\ shared = NoShare
    /\ calls = <<>>

InitStore ==
    /\ \E setup \in ServeSetups : themeFile = setup[1] /\ cfg = setup[2]
    /\ snapshots = <<>>
    /\ chartItems = <<>>
    /\ clock = 0
    /\ report = NoCall
    /\ series = NoCall

Init ==
    /\ InitStore
    /\ input = NoInput
    /\ theme = NoLabel
    /\ args = NoArgs
    /\ result = NoResult
    /\ themeConfig = NoLoad
    /\ IdleShare
    /\ IdleServe
    /\ topChart = NoChartCall

Next == FetchSnapshot \/ Report \/ TimeSeries \/ Respond

Spec == Init /\ [][Next]_vars

-----------------------------------------------------------------------------
(* Classify alone *)

IdleStore ==
    /\ themeFile = FileAbsent
    /\ cfg = DefaultTrendConfig
    /\ snapshots = <<>>
    /\ chartItems = <<>>
    /\ clock = 0
    /\ report = NoCall
    /\ series = NoCall

InitClassifyOnly ==
    /\ IdleStore
    /\ InitClassify
    /\ args = NoArgs
    /\ result = NoResult
    /\ themeConfig = NoLoad
    /\ IdleShare
    /\ IdleServe
    /\ topChart = NoChartCall

NextClassify == DoClassify /\ UNCHANGED <<storeVars, analyzeVars, loadVars, shareVars, serveVars, chartVars>>

SpecClassify == InitClassifyOnly /\ [][NextClassify]_vars

-----------------------------------------------------------------------------
(* AnalyzeTrends alone *)

\* The item lists GetSnapshotItems can return for charts of the apps in S:
\* ranks 1..n, each app at most once
ItemLists(S) ==
    UNION {{GetSnapshotItems([k \in {1} |-> rowsOf(1, feed, lookups)], 1) :
               lookups \in [1..Len(feed) -> Lookups]} :
           feed \in Arrangements(S, MaxItems)}

InitAnalyze ==
    /\ args \in [called : {TRUE}, limit : {ChartLimit},
                 latestItems : ItemLists(Apps), previousItems : ItemLists(ChartApps),
                 cfg : TrendConfigs, themes : {customThemes}]
    /\ result = NoResult

\* One call of AnalyzeTrends
DoAnalyze ==
    /\ ~result.returned
    /\ result' = [returned |-> TRUE,
                  value |-> AnalyzeTrends([Limit |-> args.limit], [Limit |-> args.limit],
                                          args.latestItems, args.previousItems,
                                          args.cfg, args.themes)]
    /\ UNCHANGED args

InitAnalyzeOnly ==
    /\ IdleStore
    /\ input = NoInput
    /\ theme = NoLabel
    /\ InitAnalyze
    /\ themeConfig = NoLoad
    /\ IdleShare
    /\ IdleServe
    /\ topChart = NoChartCall

NextAnalyze == DoAnalyze /\ UNCHANGED <<storeVars, classifyVars, loadVars, shareVars, serveVars, chartVars>>

SpecAnalyze == InitAnalyzeOnly /\ [][NextAnalyze]_vars

-----------------------------------------------------------------------------
(* LoadThemeConfig alone *)

\* The risk groups a themes file may list
RiskGroups == {<<>>, <<sGames>>, <<ToLower(sFinance), sGames>>}

\* The states of the file at themePath: absent, present but unreadable,
\* readable but not JSON of a ThemeConfig, or the JSON of a ThemeConfig with
\* up to MaxRules rules (none included)
ThemeFiles ==
    {FileAbsent, FileUnreadable, FileCorrupt} \cup
    {FileJSON([Rules |-> r, RiskOn |-> on, RiskOff |-> off]) :
        r \in SeqsOf(ClassifyRules, 0, MaxRules), on \in RiskGroups, off \in RiskGroups}

InitLoad ==
    /\ themeFile \in ThemeFiles
    /\ themeConfig = NoLoad

\* One call of LoadThemeConfig(themePath)
DoLoad ==
    /\ ~themeConfig.done
    /\ themeConfig' = [done |-> TRUE, value |-> LoadThemeConfig(themeFile)]
    /\ UNCHANGED themeFile

InitLoadOnly ==
    /\ InitLoad
    /\ cfg = DefaultTrendConfig
    /\ snapshots = <<>>
    /\ chartItems = <<>>
    /\ clock = 0
    /\ report = NoCall
    /\ series = NoCall
    /\ input = NoInput
    /\ theme = NoLabel
    /\ args = NoArgs
    /\ result = NoResult
    /\ IdleShare
    /\ IdleServe
    /\ topChart = NoChartCall

NextLoad ==
    DoLoad /\ UNCHANGED <<cfg, snapshots, chartItems, clock, report, series,
                          classifyVars, analyzeVars, shareVars, serveVars, chartVars>>

SpecLoad == InitLoadOnly /\ [][NextLoad]_vars

-----------------------------------------------------------------------------
(* Two calls of AnalyzeTrends over items that share memory *)

\* The cells of string memory the genre slices of the shared items lie in
HeapCells == 4

\* The calls of AnalyzeTrends that run at the same time
Callers == 1..2

\* A slice header: cells at+1 .. at+len of the heap are the slice's elements,
\* cells at+1 .. at+cap its backing array
Slice(at, len, cap) == [at |-> at, len |-> len, cap |-> cap]

\* A nil slice
NilSlice == Slice(0, 0, 0)

\* The elements of slice s in heap h
elements(h, s) == [k \in 1..s.len |-> h[s.at + k]]

\* append(s, xs...): the elements go into the backing array of s when it has
\* room for them, and into a new array otherwise
appendTo(h, s, xs) ==
    [heap |-> IF s.len + Len(xs) <= s.cap
              THEN [c \in DOMAIN h |->
                       IF c > s.at + s.len /\ c <= s.at + s.len + Len(xs)
                       THEN xs[c - s.at - s.len] ELSE h[c]]
              ELSE h,
     values |-> elements(h, s) \o xs]

\* Classify on an item whose genre slices lie in heap h: the label, and the
\* heap the two appends of its first statement leave
classifyIn(h, rules, item) ==
    LET inner == appendTo(h, item.ItunesGenres, <<item.PrimaryGenre>>)
        outer == appendTo(inner.heap, item.Genres, inner.values)
    IN  [heap  |-> outer.heap,
         label |-> classifyFrom(rules, 1, normalizeList(outer.values),
                                {TrimSpace(id) : id \in Range(item.GenreIDs)},
                                ToLower(item.AppName))]

\* Themes matched by genre name only
shareThemes ==
    [Rules   |-> <<ThemeRule(ToLower(sGames), <<>>, <<sGames>>, <<>>),
                   ThemeRule(ToLower(sFinance), <<>>, <<sFinance>>, <<>>)>>,
     RiskOn  |-> <<ToLower(sGames)>>,
     RiskOff |-> <<ToLower(sFinance)>>]

\* A chart item, its two genre lists as slices
SharedItem(name, genres, primary, itunes) ==
    [AppName |-> name, GenreIDs |-> <<>>, Genres |-> genres,
     PrimaryGenre |-> primary, ItunesGenres |-> itunes]

\* Two items as a caller may build them: the first item's lists are cut from
\* the front of an array with or without the capacity that follows, the
\* second item's lists are the cells after them
SharedItems ==
    { <<SharedItem(sGoPay, g, p, t),
        SharedItem(sBank, Slice(1, 1, 1), <<>>, Slice(3, 1, 1))>> :
        g \in {Slice(0, 1, 1), Slice(0, 1, 2)},
        p \in {<<>>, sFinance},
        t \in {NilSlice, Slice(2, 1, 2)} }

\* The orders in which a call may be handed the two items
ItemOrders == {<<1, 2>>, <<2, 1>>}

InitShare ==
    /\ heap \in [1..HeapCells -> {sGames, sTravel}]
    /\ \E its \in SharedItems : shared = [items |-> its, given |-> heap]
    /\ calls \in [Callers -> [order : ItemOrders, next : {1}, labels : {<<>>}]]

\* One round of the item loop of AnalyzeTrends in call p: the Classify of the
\* next item of its list
AnalyzeItem(p) ==
    /\ calls[p].next <= Len(calls[p].order)
    /\ LET got == classifyIn(heap, NewThemeClassifier(shareThemes),
                             shared.items[calls[p].order[calls[p].next]])
       IN  /\ heap' = got.heap
           /\ calls' = [calls EXCEPT ![p].next = @ + 1,
                                     ![p].labels = Append(@, got.label)]
    /\ UNCHANGED shared

InitShareOnly ==
    /\ InitShare
    /\ themeFile = FileAbsent
    /\ cfg = DefaultTrendConfig
    /\ snapshots = <<>>
    /\ chartItems = <<>>
    /\ clock = 0
    /\ report = NoCall
    /\ series = NoCall
    /\ input = NoInput
    /\ theme = NoLabel
    /\ args = NoArgs
    /\ result = NoResult
    /\ themeConfig = NoLoad
    /\ IdleServe
    /\ topChart = NoChartCall

NextShare ==
    \E p \in Callers :
        AnalyzeItem(p) /\ UNCHANGED <<storeVars, classifyVars, analyzeVars, loadVars, serveVars, chartVars>>

SpecShare == InitShareOnly /\ [][NextShare]_vars

-----------------------------------------------------------------------------
(* serve: the auto-fetch goroutine and the request handlers (runServe) *)

\* The ticks of the ticker that are followed
MaxTicks == 1

\* --interval: the hours between two ticks, 6 by default
Interval == 6

\* The requests, each served in a goroutine of its own, and the endpoint each
\* is for
Handlers == {"h1", "h2"}
Endpoint(h) == IF h = "h1" THEN "/api/report" ELSE "/api/timeseries"

\* A plausible fault: the goroutine goes on without the mutex
canLockAlways(g) == TRUE

\* mu.Lock() returns in goroutine g: the mutex is not held
canLock(g) == mu = "free"

\* The auto-fetch goroutine at `pc`: "off" without --auto-fetch, "lock" when
\* doFetch waits for the mutex, "ticker" when the loop waits for a tick;
\* inside fetchSnapshot "feed" before the feed is asked and "item" in the item
\* loop, and "unlock" when fetchSnapshot has returned. log lists the calls of
\* fetchSnapshot that returned: the snapshot id (0 when none was inserted),
\* the feed and the error
fetcherAt(pc) ==
    [pc |-> pc, ticks |-> 0, chart |-> <<>>, id |-> 0, idx |-> 0, err |-> "", log |-> <<>>]

\* The goroutine of a request: "none" before the request arrives, "lock" when
\* the handler waits for the mutex, "compute" when it holds it, "unlock" when
\* the response is written, "done" when the handler has returned; read is the
\* set of ids of the snapshots its computation read
handlerAt(pc) == [pc |-> pc, read |-> {}]

\* What a serving process leaves alone
idleVars == <<classifyVars, analyzeVars, loadVars, shareVars, chartVars>>

InitServe ==
    /\ mu = "free"
    /\ fetcher \in {fetcherAt("off"), fetcherAt("lock"), fetcherAt("ticker")}
    /\ handlers = [h \in Handlers |-> handlerAt("none")]

\* A tick of the ticker is received: doFetch is called
Tick ==
    /\ fetcher.pc = "ticker"
    /\ fetcher.ticks < MaxTicks
    /\ fetcher' = [fetcher EXCEPT !.pc = "lock", !.ticks = @ + 1]
    /\ clock' = clock + Interval
    /\ UNCHANGED <<mu, handlers, themeFile, cfg, snapshots, chartItems, report, series,
                   idleVars>>

\* doFetch: mu.Lock()
FetcherLock ==
    /\ fetcher.pc = "lock"
    /\ canLock("auto")
    /\ mu' = "auto"
    /\ fetcher' = [fetcher EXCEPT !.pc = "feed", !.chart = <<>>, !.id = 0,
                                  !.idx = 0, !.err = ""]
    /\ UNCHANGED <<handlers, storeVars, idleVars>>

\* fetchSnapshot up to its item loop: FetchTopChart fails or brings no
\* results, or InsertSnapshot fails, and fetchSnapshot returns the error; or
\* the snapshot row is inserted
BeginFetch ==
    /\ fetcher.pc = "feed"
    /\ \/ \E e \in {"rss request failed", "rss returned no results", "insert snapshot failed"} :
             /\ fetcher' = [fetcher EXCEPT !.pc = "unlock", !.err = e]
             /\ UNCHANGED <<snapshots, chartItems>>
       \/ \E chart \in Charts :
             LET id == Len(snapshots) + 1
             IN  /\ snapshots' = Append(snapshots, [ID |-> id, CollectedAt |-> clock,
                                                    Limit |-> ChartLimit])
                 /\ chartItems' = [k \in DOMAIN chartItems \cup {id} |->
                                      IF k = id THEN <<>> ELSE chartItems[k]]
                 /\ fetcher' = [fetcher EXCEPT !.pc = "item", !.chart = chart,
                                               !.id = id, !.idx = 1]
    /\ UNCHANGED <<mu, handlers, themeFile, cfg, clock, report, series, idleVars>>

\* One round of the item loop of fetchSnapshot: the lookup of the item, then
\* InsertChartItem, which inserts the row or fails; fetchSnapshot returns the
\* error at once, and returns without error after the last item
InsertItem ==
    /\ fetcher.pc = "item"
    /\ \/ /\ fetcher' = [fetcher EXCEPT !.pc = "unlock", !.err = "insert chart item failed"]
          /\ UNCHANGED chartItems
       \/ LET entry == fetcher.chart[fetcher.idx]
              row   == rowOf(chartItemOf(fetcher.id, fetcher.idx, entry[1],
                                         IF entry[2] THEN Min(fetcher.id, MaxRating) ELSE 0))
          IN  /\ chartItems' = [chartItems EXCEPT ![fetcher.id] = Append(@, row)]
              /\ fetcher' = IF fetcher.idx = Len(fetcher.chart)
                            THEN [fetcher EXCEPT !.pc = "unlock"]
                            ELSE [fetcher EXCEPT !.idx = @ + 1]
    /\ UNCHANGED <<mu, handlers, themeFile, cfg, snapshots, clock, report, series,
                   idleVars>>

\* A plausible fault: the mutex is unlocked on the path without error only
releasedOnSuccess(err) == IF err = "" THEN "free" ELSE "auto"

\* The mutex when doFetch has returned with err: the deferred mu.Unlock()
\* runs on every path
released(err) == "free"

\* doFetch returns: the result is logged and the deferred mu.Unlock() runs;
\* the goroutine is back at the ticker
FetcherUnlock ==
    /\ fetcher.pc = "unlock"
    /\ mu' = released(fetcher.err)
    /\ fetcher' = [fetcher EXCEPT !.pc = "ticker",
                                  !.log = Append(@, [id |-> fetcher.id, chart |-> fetcher.chart,
                                                     err |-> fetcher.err])]
    /\ UNCHANGED <<handlers, storeVars, idleVars>>

\* The request arrives and its handler is called
Arrive(h) ==
    /\ handlers[h].pc = "none"
    /\ handlers' = [handlers EXCEPT ![h].pc = "lock"]
    /\ UNCHANGED <<mu, fetcher, storeVars, idleVars>>

\* The handler: mu.Lock()
HandlerLock(h) ==
    /\ handlers[h].pc = "lock"
    /\ canLock(h)
    /\ mu' = h
    /\ handlers' = [handlers EXCEPT ![h].pc = "compute"]
    /\ UNCHANGED <<fetcher, storeVars, idleVars>>

\* The snapshots computeReport reads: the latest and the one before it
reportReads(table) ==
    LET latest == GetLatestSnapshot(table)
    IN  IF latest.err # "" THEN {}
        ELSE LET previous == GetPreviousSnapshot(table, latest.snapshot.CollectedAt)
             IN  IF previous.err # "" THEN {latest.snapshot.ID}
                 ELSE {latest.snapshot.ID, previous.snapshot.ID}

\* The handler of /api/report: computeReport, and the payload or the error is
\* written out
ServeReport(h) ==
    /\ handlers[h].pc = "compute"
    /\ Endpoint(h) = "/api/report"
    /\ \E order \in RangeOrders(LabelsOf(themeFile, chartItems)) :
           report' = computeReport(snapshots, chartItems, themeFile, cfg, clock, order)
    /\ handlers' = [handlers EXCEPT ![h].pc = "unlock", ![h].read = reportReads(snapshots)]
    /\ UNCHANGED <<mu, fetcher, themeFile, cfg, snapshots, chartItems, clock, series,
                   idleVars>>

\* The handler of /api/timeseries: computeTimeSeries with --limit top items,
\* and the payload or the error is written out
ServeTimeSeries(h) ==
    /\ handlers[h].pc = "compute"
    /\ Endpoint(h) = "/api/timeseries"
    /\ series' = computeTimeSeries(snapshots, chartItems, themeFile, cfg, ChartLimit, SeoulOffset)
                     @@ [topN |-> ChartLimit, loc |-> SeoulOffset]
    /\ handlers' = [handlers EXCEPT ![h].pc = "unlock",
                                    ![h].read = {s.ID : s \in Range(ListSnapshots(snapshots))}]
    /\ UNCHANGED <<mu, fetcher, themeFile, cfg, snapshots, chartItems, clock, report,
                   idleVars>>

\* The handler returns: the deferred mu.Unlock() runs
HandlerUnlock(h) ==
    /\ handlers[h].pc = "unlock"
    /\ mu' = "free"
    /\ handlers' = [handlers EXCEPT ![h].pc = "done"]
    /\ UNCHANGED <<fetcher, storeVars, idleVars>>

InitServeOnly ==
    /\ InitServe
    /\ themeFile = FileAbsent
    /\ cfg = DefaultTrendConfig
    /\ snapshots = <<>>
    /\ chartItems = <<>>
    /\ clock = 0
    /\ report = NoCall
    /\ series = NoCall
    /\ input = NoInput
    /\ theme = NoLabel
    /\ args = NoArgs
    /\ result = NoResult
    /\ themeConfig = NoLoad
    /\ IdleShare
    /\ topChart = NoChartCall

NextServe ==
    \/ Tick
    \/ FetcherLock
    \/ BeginFetch
    \/ InsertItem
    \/ FetcherUnlock
    \/ \E h \in Handlers : Arrive(h)
    \/ \E h \in Handlers : HandlerLock(h)
    \/ \E h \in Handlers : ServeReport(h)
    \/ \E h \in Handlers : ServeTimeSeries(h)
    \/ \E h \in Handlers : HandlerUnlock(h)

SpecServe == InitServeOnly /\ [][NextServe]_vars

\* The step of ServeReport(h) or ServeTimeSeries(h) as the handler's goroutine
\* takes it, whatever was computed: it leaves the computation with the
\* response written, having read some of the stored snapshots
Responds(h) ==
    /\ handlers[h].pc = "compute"
    /\ \E read \in SUBSET {s.ID : s \in Range(snapshots)} :
          handlers' = [handlers EXCEPT ![h] = [pc |-> "unlock", read |-> read]]

\* The same under the scheduling of the program: the ticker ticks, a goroutine
\* that can run does run, every call of fetchSnapshot returns (the client has
\* a timeout), and a goroutine waiting in mu.Lock() gets the mutex when it is
\* released again and again (sync.Mutex hands it to a starving waiter).
\* Requests arrive or not.
SpecServeFair ==
    /\ SpecServe
    /\ WF_vars(Tick)
    /\ SF_vars(FetcherLock)
    /\ WF_vars(BeginFetch)
    /\ WF_vars(InsertItem)
    /\ WF_vars(FetcherUnlock)
    /\ \A h \in Handlers :
          /\ SF_vars(HandlerLock(h))
          /\ WF_handlers(Responds(h))
          /\ WF_vars(HandlerUnlock(h))

-----------------------------------------------------------------------------
(***************************************************************************)
(* FetchTopChart: one call, its requests and the waits between them        *)
(***************************************************************************)

\* The loop runs while attempt < 3
MaxAttempts == 3

StatusOK == 200
StatusTooManyRequests == 429
StatusInternalServerError == 500

\* The three-digit status codes a response is followed with
Statuses == {StatusOK, 404, StatusTooManyRequests, StatusInternalServerError, 503, 999}

\* client.Do returned an error and no response
TransportError == [kind |-> "error", status |-> 0, decodes |-> FALSE]

\* What client.Do yields: an error, or a response with a status and a body
\* that json.Decode accepts or not (looked at for status 200 only)
Responses ==
    {TransportError} \cup
    {[kind |-> "response", status |-> s, decodes |-> d] :
        s \in Statuses, d \in {FALSE}} \cup
    {[kind |-> "response", status |-> StatusOK, decodes |-> TRUE]}

\* lastErr after one attempt; "" is nil
lastErrOf(r) ==
    IF r.kind = "error" THEN "transport error"
    ELSE IF r.status # StatusOK THEN "rss request failed"
    ELSE IF ~r.decodes THEN "decode error"
    ELSE ""

retriesAfterAny(status) == TRUE

\* The loop goes on after a failed response unless
\* res.StatusCode < 500 && res.StatusCode != http.StatusTooManyRequests
retriesAfter(status) ==
    ~(status < StatusInternalServerError /\ status # StatusTooManyRequests)

returnWith(c, ok, err) ==
    [c EXCEPT !.pc = "returned", !.ok = ok, !.err = err]

InitChart ==
    topChart \in {[pc |-> "call", valid |-> v, attempt |-> 0, seen |-> <<>>,
                   ctxDone |-> FALSE, lastErr |-> "", ok |-> FALSE, err |-> ""] :
                     v \in BOOLEAN}

chartIdle == <<storeVars, classifyVars, analyzeVars, loadVars, shareVars, serveVars>>

\* The call begins: an invalid chart name returns before any request
BeginChart ==
    /\ topChart.pc = "call"
    /\ topChart' = IF topChart.valid
                     THEN [topChart EXCEPT !.pc = "request"]
                     ELSE returnWith(topChart, FALSE, "invalid chart")
    /\ UNCHANGED chartIdle

\* One pass of the loop body up to the select: the request and what
\* the function does with its outcome
DoRequest ==
    /\ topChart.pc = "request"
    /\ \E r \in Responses :
        /\ topChart.ctxDone => r = TransportError
        /\ LET c == [topChart EXCEPT !.seen = Append(@, r),
                                     !.lastErr = lastErrOf(r)]
           IN topChart' =
                IF r.kind = "response" /\ lastErrOf(r) = ""
                  THEN returnWith(c, TRUE, "")
                ELSE IF r.kind = "response" /\ ~retriesAfter(r.status)
                  THEN returnWith(c, FALSE, c.lastErr)
                ELSE IF c.attempt < MaxAttempts - 1
                  THEN [c EXCEPT !.pc = "wait"]
                ELSE returnWith([c EXCEPT !.attempt = @ + 1], FALSE, c.lastErr)
    /\ UNCHANGED chartIdle

\* case <-time.After(...): the next pass of the loop
TimerFires ==
    /\ topChart.pc = "wait"
    /\ ~topChart.ctxDone
    /\ topChart' = [topChart EXCEPT !.pc = "request", !.attempt = @ + 1]
    /\ UNCHANGED chartIdle

\* case <-ctx.Done(): return ctx.Err()
WaitCancelled ==
    /\ topChart.pc = "wait"
    /\ topChart.ctxDone
    /\ topChart' = returnWith(topChart, FALSE, "context canceled")
    /\ UNCHANGED chartIdle

\* The caller cancels the context while the call runs
Cancel ==
    /\ topChart.pc \in {"call", "request", "wait"}
    /\ ~topChart.ctxDone
    /\ topChart' = [topChart EXCEPT !.ctxDone = TRUE]
    /\ UNCHANGED chartIdle

InitChartOnly ==
    /\ InitChart
    /\ IdleStore
    /\ input = NoInput
    /\ theme = NoLabel
    /\ args = NoArgs
    /\ result = NoResult
    /\ themeConfig = NoLoad
    /\ IdleShare
    /\ IdleServe

NextChart ==
    \/ BeginChart
    \/ DoRequest
    \/ TimerFires
    \/ WaitCancelled
    \/ Cancel

\* The client's timeout ends every request and the timer of a wait fires,
\* so the function's own steps are taken when they stay possible
SpecChart ==
    /\ InitChartOnly
    /\ [][NextChart]_vars
    /\ WF_vars(BeginChart)
    /\ WF_vars(DoRequest)
    /\ WF_vars(TimerFires)
    /\ WF_vars(WaitCancelled)

-----------------------------------------------------------------------------
(* Claims about AnalyzeTrends, checked on the calls of SpecAnalyze *)

\* The trends returned for a current item, and the previous items with its AppID
TrendsFor(item) == {t \in Range(result.value.Trends) : t.AppID = item.AppID}
PreviousFor(item) == {p \in Range(args.previousItems) : p.AppID = item.AppID}

\* C1: AnalyzeTrends gives a current item whose AppID is not in previousItems
\* NewEntry = TRUE and RankDelta = (latest.Limit + 1) - its Rank, and a current
\* item whose AppID is in previousItems NewEntry = FALSE and RankDelta = that
\* previous item's Rank - its Rank
RankDeltaAgainstPrevious ==
    result.returned =>
        \A item \in Range(args.latestItems) :
            /\ TrendsFor(item) # {}
            /\ \A t \in TrendsFor(item) :
                  IF PreviousFor(item) = {}
                  THEN t.NewEntry /\ t.RankDelta = (args.limit + 1) - item.Rank
                  ELSE ~t.NewEntry
                       /\ \A p \in PreviousFor(item) : t.RankDelta = p.Rank - item.Rank

\* A call whose current items hold a new entry and an item that changed rank
NewEntryBesideMover ==
    /\ result.returned
    /\ \E item \in Range(args.latestItems) : PreviousFor(item) = {}
    /\ \E item \in Range(args.latestItems) :
           \E p \in PreviousFor(item) : p.Rank # item.Rank

\* C4: the rating delta of a current item is 0 when it has no valid rating
\* count, its count minus the previous count when the item is in previousItems
\* with a valid count there, and its full count otherwise
RatingDeltaByCase ==
    result.returned =>
        \A item \in Range(args.latestItems) :
            /\ TrendsFor(item) # {}
            /\ \A t \in TrendsFor(item) :
                  IF ~item.RatingCount.Valid THEN t.RatingDelta = 0
                  ELSE IF \E p \in PreviousFor(item) : p.RatingCount.Valid
                       THEN \A p \in PreviousFor(item) :
                                t.RatingDelta = item.RatingCount.Value - p.RatingCount.Value
                       ELSE t.RatingDelta = item.RatingCount.Value

\* A call with an item whose count grew since the previous snapshot and an
\* item counted now but not before
GrownBesideFirstCount ==
    /\ result.returned
    /\ \E item \in Range(args.latestItems) :
           /\ item.RatingCount.Valid
           /\ \E p \in PreviousFor(item) :
                  p.RatingCount.Valid /\ p.RatingCount.Value < item.RatingCount.Value
    /\ \E item \in Range(args.latestItems) :
           /\ item.RatingCount.Valid
           /\ \A p \in PreviousFor(item) : ~p.RatingCount.Valid

-----------------------------------------------------------------------------
(* Claims about Classify, checked on the calls of SpecClassify *)

\* The genre names Classify tests: all three sources, trimmed and case-folded
ItemGenres(in) ==
    Range(normalizeList(in.Genres \o in.ItunesGenres \o <<in.PrimaryGenre>>))

\* The three predicates of a classifier rule on an input
MatchesByID(rule, in) ==
    \E id \in Range(in.GenreIDs) : TrimSpace(id) \in rule.genreIDs
MatchesByGenre(rule, in) ==
    \E g \in ItemGenres(in), f \in Range(rule.genres) : Contains(g, f)
MatchesByKeyword(rule, in) ==
    \E k \in Range(rule.keywords) : Contains(ToLower(in.Name), k)
Matches(rule, in) ==
    MatchesByID(rule, in) \/ MatchesByGenre(rule, in) \/ MatchesByKeyword(rule, in)

\* C2: when two rules of the classifier both match the input, each by any of
\* its three predicates, Classify returns the theme of the earlier one (the
\* earliest matching rule) whatever predicate each matched by; the theme
\* returned is thus fixed by the rules and the input alone
EarlierRuleWins ==
    theme.done =>
        LET rules == NewThemeClassifier(input.themes)
        IN  \A i, j \in 1..Len(rules) :
                ( /\ i < j
                  /\ Matches(rules[i], input.in)
                  /\ Matches(rules[j], input.in)
                  /\ \A h \in 1..(i - 1) : ~Matches(rules[h], input.in) )
                => theme.label = rules[i].theme

\* A call where a rule matching by keyword only comes before a rule of another
\* theme matching by genre id
KeywordRuleBeforeIDRule ==
    /\ theme.done
    /\ LET rules == NewThemeClassifier(input.themes)
       IN  \E i, j \in 1..Len(rules) :
               /\ i < j
               /\ MatchesByKeyword(rules[i], input.in)
               /\ ~MatchesByID(rules[i], input.in)
               /\ ~MatchesByGenre(rules[i], input.in)
               /\ MatchesByID(rules[j], input.in)
               /\ rules[i].theme # rules[j].theme
               /\ \A h \in 1..(i - 1) : ~Matches(rules[h], input.in)

\* The predicates of a rule as the themes file states it: ids compared trimmed,
\* genre fragments and keywords trimmed and lower-cased, empty ones never matching
ConfiguredRuleMatches(rule, in) ==
    \/ \E a \in Range(in.GenreIDs), b \in Range(rule.GenreIDs) :
           TrimSpace(a) = TrimSpace(b)
    \/ \E g \in ItemGenres(in), f \in Range(rule.Genres) :
           ToLower(TrimSpace(f)) # <<>> /\ Contains(g, ToLower(TrimSpace(f)))
    \/ \E k \in Range(rule.Keywords) :
           ToLower(TrimSpace(k)) # <<>> /\ Contains(ToLower(in.Name), ToLower(TrimSpace(k)))

\* The first configured rule that matches the input, if any
FirstMatching(rules, in) ==
    {i \in 1..Len(rules) :
        /\ ConfiguredRuleMatches(rules[i], in)
        /\ \A h \in 1..(i - 1) : ~ConfiguredRuleMatches(rules[h], in)}

-----------------------------------------------------------------------------
(* Claims about the time series and the report, checked on the calls of Spec *)

\* What the pending call of computeTimeSeries listed and read, its zone, and
\* what groupSnapshotsByDate returned to it
Listed == ListSnapshots(snapshots)
ListedItems == [i \in 1..Len(Listed) |-> GetSnapshotItems(chartItems, Listed[i].ID)]
DayOfListed(i) == dateKey(Listed[i], series.loc)
Grouped == series.payload.grouped
Days == Len(Grouped.snapshots)

\* The indices of the listed snapshots that are the last of their calendar day
LastOfDay ==
    {i \in 1..Len(Listed) :
        \A j \in 1..Len(Listed) : DayOfListed(j) = DayOfListed(i) => j <= i}

\* C5: from snapshots in ascending collection-time order groupSnapshotsByDate
\* returns, for each calendar day of the zone, exactly the snapshot of greatest
\* index among that day's, paired with that snapshot's own items, in the order
\* of the input and with no day missing
LastSnapshotOfEachDayKept ==
    series.status = "ok" =>
        LET last == LastOfDay
        IN  /\ Days = Cardinality(last)
            /\ Len(Grouped.items) = Days
            /\ \A k \in 1..Days :
                   \E i \in last :
                       /\ Cardinality({h \in last : h <= i}) = k
                       /\ Grouped.snapshots[k] = Listed[i]
                       /\ Grouped.items[k] = GetSnapshotItems(chartItems, Listed[i].ID)

\* A call over several days, one of which has two snapshots with different items
SeveralDaysOneRepeated ==
    /\ series.status = "ok"
    /\ Days >= 2
    /\ \E i, j \in 1..Len(Listed) :
           /\ i < j
           /\ DayOfListed(i) = DayOfListed(j)
           /\ ListedItems[i] # ListedItems[j]

\* C6: groupSnapshotsByDate applied to its own output returns it unchanged,
\* an input with one snapshot per day is returned unchanged, and the time
\* series of the retained snapshots alone is the time series of them all
GroupingIsIdempotent ==
    series.status = "ok" =>
        /\ groupSnapshotsByDate(Grouped.snapshots, Grouped.items, series.loc) = Grouped
        /\ (Cardinality(LastOfDay) = Len(Listed)
               => Grouped = [snapshots |-> Listed, items |-> ListedItems])
        /\ computeTimeSeries(Grouped.snapshots, chartItems, themeFile, cfg,
                             series.topN, series.loc).payload = series.payload

\* A call in which grouping dropped the first listed snapshot and kept a later one
FirstSnapshotDropped ==
    /\ series.status = "ok"
    /\ 1 \notin LastOfDay
    /\ Days >= 1
    /\ Grouped.snapshots[1] # Listed[1]


\* The flags give finite weights
FiniteWeights == cfg.RankWeight.k = "fin" /\ cfg.ReviewWeight.k = "fin"

\* The first transition of the pending time series: no delta, no new entry
FirstDayHasNoDeltas ==
    \A t \in Range(series.payload.results[1].Trends) :
        t.RankDelta = 0 /\ t.RatingDelta = 0 /\ ~t.NewEntry

\* The first element of every score series is 0
FirstScoresAreZero ==
    /\ series.payload.RotationIndex[1] = Fin(0)
    /\ series.payload.RiskOnScore[1] = Fin(0)
    /\ series.payload.RiskOffScore[1] = Fin(0)
    /\ \A t \in DOMAIN series.payload.ThemeScores :
           series.payload.ThemeScores[t][1] = Fin(0)

\* C7, as amended: the first retained day is analysed against itself, so every
\* AppTrend of the first transition has RankDelta = 0, RatingDelta = 0 and
\* NewEntry = FALSE, and for finite weights and any new-entry bonus the first
\* element of rotation_index, risk_on_score, risk_off_score and of every theme
\* series is 0
FirstDayZeroForFiniteWeights ==
    series.status = "ok" =>
        /\ FirstDayHasNoDeltas
        /\ FiniteWeights => FirstScoresAreZero

\* C7, as stated: the first elements are 0 for any weights and any bonus
FirstDayZeroForAnyWeights ==
    series.status = "ok" => FirstDayHasNoDeltas /\ FirstScoresAreZero

\* A call with finite weights whose first day has a rated item and whose
\* second day does move the rotation index
SecondDayMovesRotation ==
    /\ series.status = "ok"
    /\ FiniteWeights
    /\ Days >= 2
    /\ \E item \in Range(Grouped.items[1]) : item.RatingCount.Valid
    /\ series.payload.RotationIndex[2] # Fin(0)

\* C8: buildTopApps returns min(N, k) histories, k the number of items of the
\* most recent retained day: the first min(N, k) items of that day in its rank
\* order, with no padding entry and no item of an earlier day
TopAppsAreLatestDayPrefix ==
    series.status = "ok" =>
        LET latestItems == Grouped.items[Days]
            top         == series.payload.TopApps
        IN  /\ Len(top) = Min(series.topN, Len(latestItems))
            /\ \A i \in 1..Len(top) :
                   /\ top[i].AppID = latestItems[i].AppID
                   /\ top[i].AppName = latestItems[i].AppName
                   /\ top[i].Ranks[Days] = Ptr(latestItems[i].Rank)
                   /\ \A j \in 1..(i - 1) : latestItems[j].Rank < latestItems[i].Rank

\* A call asking for more histories than the latest day has items, an earlier
\* day having an item the latest day lacks
MoreAskedThanCharted ==
    /\ series.status = "ok"
    /\ Len(Grouped.items[Days]) >= 1
    /\ series.topN > Len(Grouped.items[Days])
    /\ \E d \in 1..(Days - 1) :
           \E item \in Range(Grouped.items[d]) :
               \A now \in Range(Grouped.items[Days]) : now.AppID # item.AppID

\* The theme names the rules file configures, and "other"
KnownThemes == {sOther} \cup {r.Theme : r \in Range(LoadThemeConfig(themeFile).cfg.Rules)}

\* The theme of the rule that classifies an item: that of the first rule
\* matching it, or "other"
ThemeOfItem(item) ==
    LET rules == LoadThemeConfig(themeFile).cfg.Rules
        first == FirstMatching(rules, ThemeInput(item.AppName, item.Genres, item.GenreIDs,
                                                 item.PrimaryGenre, item.ItunesGenres))
    IN  IF first = {} THEN sOther ELSE rules[CHOOSE i \in first : TRUE].Theme

\* The trend scores, on day d, of the items classified into theme t
ScoresOfTheme(t, d) ==
    LET classed(x) == \E item \in Range(Grouped.items[d]) :
                          item.AppID = x.AppID /\ ThemeOfItem(item) = t
        mine == SelectSeq(series.payload.results[d].Trends, classed)
    IN  [k \in 1..Len(mine) |-> mine[k].TrendScore]

\* C9: for every retained day and every known theme name (those of the
\* configured rules and "other") the theme's series at that day is the mean
\* trend score of the items classified into the theme on that day's transition,
\* 0 when there is none, and the series are keyed by exactly the known names
\* (stated for finite weights, where every score is a number)
ThemeSeriesAreThemeMeans ==
    (series.status = "ok" /\ FiniteWeights) =>
        /\ DOMAIN series.payload.ThemeScores = KnownThemes
        /\ \A t \in KnownThemes :
               \A d \in 1..Days :
                   LET scores == ScoresOfTheme(t, d)
                   IN  series.payload.ThemeScores[t][d] =
                           IF Len(scores) = 0 THEN Fin(0)
                           ELSE FDivN(FSum(scores), Len(scores))

-----------------------------------------------------------------------------
(* Loading the theme rules (SpecLoad) *)

\* The built-in configuration: ten rules, five risk-on and five risk-off themes
IsBuiltIn(c) ==
    /\ c = defaultThemeConfig
    /\ Len(c.Rules) = 10
    /\ Len(c.RiskOn) = 5
    /\ Len(c.RiskOff) = 5

\* C11: LoadThemeConfig returns the built-in default configuration without
\* error when the file is absent or parses with an empty rules array, an error
\* and no configuration when the file exists but cannot be read or parsed, and
\* the file's own configuration unchanged when it has at least one rule
DefaultOnlyWithoutRules ==
    themeConfig.done =>
        LET got == themeConfig.value
        IN  /\ themeFile.kind = "absent" => got.err = "" /\ IsBuiltIn(got.cfg)
            /\ (themeFile.kind = "json" /\ Len(themeFile.cfg.Rules) = 0)
                   => got.err = "" /\ IsBuiltIn(got.cfg)
            /\ themeFile.kind \in {"unreadable", "corrupt"}
                   => got.err # "" /\ DOMAIN got = {"err"}
            /\ (themeFile.kind = "json" /\ Len(themeFile.cfg.Rules) >= 1)
                   => got.err = "" /\ got.cfg = themeFile.cfg

\* A file that lists risk groups but no rule has been loaded
GroupsWithoutRulesLoaded ==
    /\ themeConfig.done
    /\ themeFile.kind = "json"
    /\ Len(themeFile.cfg.Rules) = 0
    /\ Len(themeFile.cfg.RiskOn) > 0

-----------------------------------------------------------------------------
(* The layout of the time-series payload (Spec) *)

\* The TrendResult of retained day i: the day against the retained day before
\* it, the first against itself
DayResult(i) ==
    LET p == IF i > 1 THEN i - 1 ELSE i
    IN  AnalyzeTrends(Grouped.snapshots[i], Grouped.snapshots[p],
                      Grouped.items[i], Grouped.items[p],
                      cfg, LoadThemeConfig(themeFile).cfg)

\* C12: in every time-series payload dates, rotation_index, risk_on_score,
\* risk_off_score, each theme's series and each top item's ranks and
\* rating_counts all have one entry per retained day, and entry i of each is
\* that of the i-th retained day, the days being in chronological order
ArraysAlignedByDay ==
    series.status = "ok" =>
        LET p == series.payload
        IN  /\ Len(p.Dates) = Days
            /\ Len(p.RotationIndex) = Days
            /\ Len(p.RiskOnScore) = Days
            /\ Len(p.RiskOffScore) = Days
            /\ \A t \in DOMAIN p.ThemeScores : Len(p.ThemeScores[t]) = Days
            /\ \A k \in 1..Len(p.TopApps) :
                   /\ Len(p.TopApps[k].Ranks) = Days
                   /\ Len(p.TopApps[k].RatingCounts) = Days
                   /\ \A i \in 1..Days :
                          p.TopApps[k].Ranks[i].Valid =>
                              \E item \in Range(Grouped.items[i]) :
                                  /\ item.AppID = p.TopApps[k].AppID
                                  /\ item.Rank = p.TopApps[k].Ranks[i].Value
            /\ \A i \in 1..Days :
                   LET day == DayResult(i)
                   IN  /\ p.Dates[i] = Grouped.snapshots[i].CollectedAt
                       /\ \A j \in 1..(i - 1) : p.Dates[j] < p.Dates[i]
                       /\ p.RotationIndex[i] = day.RotationIndex
                       /\ p.RiskOnScore[i] = day.RiskOnScore
                       /\ p.RiskOffScore[i] = day.RiskOffScore
                       /\ \A t \in DOMAIN p.ThemeScores :
                              p.ThemeScores[t][i] = scoreAt(day.ThemeScores, t)

\* A series of three days whose risk-off scores differ from day to day, with
\* a top item missing on one of the days
ThreeDistinctDays ==
    /\ series.status = "ok"
    /\ Days = 3
    /\ series.payload.RiskOffScore[2] # series.payload.RiskOffScore[3]
    /\ series.payload.RiskOffScore[1] # series.payload.RiskOffScore[2]
    /\ \E k \in 1..Len(series.payload.TopApps) :
           \E i \in 1..Days : ~series.payload.TopApps[k].Ranks[i].Valid

-----------------------------------------------------------------------------
(* The rotation index (Spec) *)

\* C13: the rotation index is the risk-on score minus the risk-off score (the
\* float64 difference, NaN where that difference is NaN) in every TrendResult
\* AnalyzeTrends returned, at every position of the time-series arrays and in
\* every report payload
RotationIsOnMinusOff ==
    /\ series.status = "ok" =>
           \A i \in 1..Days :
               /\ series.payload.RotationIndex[i] =
                      FSub(series.payload.RiskOnScore[i], series.payload.RiskOffScore[i])
               /\ series.payload.results[i].RotationIndex =
                      FSub(series.payload.results[i].RiskOnScore,
                           series.payload.results[i].RiskOffScore)
    /\ report.status = "ok" =>
           report.payload.RotationIndex =
               FSub(report.payload.RiskOnScore, report.payload.RiskOffScore)

\* A report whose risk-on and risk-off scores are both numbers other than 0
\* and differ
ReportWithBothRisks ==
    /\ report.status = "ok"
    /\ report.payload.RiskOnScore.k = "fin"
    /\ report.payload.RiskOffScore.k = "fin"
    /\ report.payload.RiskOnScore.v # 0
    /\ report.payload.RiskOffScore.v # 0
    /\ report.payload.RiskOnScore # report.payload.RiskOffScore

-----------------------------------------------------------------------------
(* Claims about calls of AnalyzeTrends that share their items, checked on
   SpecShare *)

\* The labels call order gets from item i of its list on when it runs with
\* no other call, starting on heap h
RECURSIVE LabelsAlone(_, _, _)
LabelsAlone(h, order, i) ==
    IF i > Len(order) THEN <<>>
    ELSE LET got == classifyIn(h, NewThemeClassifier(shareThemes), shared.items[order[i]])
         IN  <<got.label>> \o LabelsAlone(got.heap, order, i + 1)

\* C14: AnalyzeTrends, with the Classify calls it makes, writes to no genre
\* list of the items passed to it, and each of two concurrent calls sharing
\* their items labels the items as it does when it runs alone
AnalysisLeavesInputsAlone ==
    /\ \A i \in 1..Len(shared.items) :
           /\ elements(heap, shared.items[i].Genres) =
                  elements(shared.given, shared.items[i].Genres)
           /\ elements(heap, shared.items[i].ItunesGenres) =
                  elements(shared.given, shared.items[i].ItunesGenres)
    /\ \A p \in DOMAIN calls :
           calls[p].next > Len(calls[p].order) =>
               calls[p].labels = LabelsAlone(shared.given, calls[p].order, 1)

-----------------------------------------------------------------------------
(* Items whose lookup failed (Spec) *)

\* The items read back are those of the fetched chart: every item of the feed
\* at its rank, an item whose lookup did not answer with no rating count, no
\* primary genre and no iTunes genres, an item whose lookup answered with a
\* rating count
FetchedAs(items, chart) ==
    /\ Len(items) = Len(chart)
    /\ \A i \in 1..Len(chart) :
           /\ items[i].AppID = chart[i][1]
           /\ items[i].Rank = i
           /\ items[i].Genres = RSSApp(chart[i][1]).Genres
           /\ items[i].RatingCount.Valid <=> chart[i][2]
           /\ ~chart[i][2] => items[i].ItunesGenres = <<>> /\ items[i].PrimaryGenre = <<>>

\* Every trend of an item that has no rating count has rating delta 0
NoCountNoDelta(trends, items) ==
    \A t \in 1..Len(trends) :
        \A i \in 1..Len(items) :
            items[i].AppID = trends[t].AppID /\ ~items[i].RatingCount.Valid =>
                trends[t].RatingDelta = 0

\* C15: an item whose lookup fails or is empty is stored all the same, with
\* no rating count and no iTunes genres, and so are the items after it; in
\* every later analysis in which it is a current item its rating delta is 0
FailedLookupIsNotFatal ==
    /\ \A s \in 1..Len(snapshots) :
           \E chart \in Charts :
               FetchedAs(GetSnapshotItems(chartItems, snapshots[s].ID), chart)
    /\ series.status = "ok" =>
           \A i \in 1..Days :
               NoCountNoDelta(series.payload.results[i].Trends, Grouped.items[i])
    /\ report.status = "ok" =>
           NoCountNoDelta(report.payload.Trends,
                          GetSnapshotItems(chartItems, report.payload.Latest.ID))

\* A time series whose last day has an item without a rating count ahead of
\* an enriched item, the day before having a rating count for both
UnenrichedLeaderAnalyzed ==
    /\ series.status = "ok"
    /\ Days >= 2
    /\ Len(Grouped.items[Days]) = 2
    /\ ~Grouped.items[Days][1].RatingCount.Valid
    /\ Grouped.items[Days][2].RatingCount.Valid
    /\ \E i \in 1..Len(Grouped.items[Days - 1]) :
           /\ Grouped.items[Days - 1][i].AppID = Grouped.items[Days][1].AppID
           /\ Grouped.items[Days - 1][i].RatingCount.Valid
    /\ \E t \in 1..Len(series.payload.results[Days].Trends) :
           series.payload.results[Days].Trends[t].RatingDelta # 0

-----------------------------------------------------------------------------
(* Degenerate deviations (SpecAnalyze) *)

\* The rank deltas and rating deltas of the returned trends, as the z-scores
\* take them
ReturnedRankDeltas == rankDeltas(result.value.Trends)
ReturnedReviewDeltas == reviewDeltas(result.value.Trends)

\* All current items have one rank delta and one rating delta
DeltasAllEqual ==
    \A t, u \in Range(result.value.Trends) :
        t.RankDelta = u.RankDelta /\ t.RatingDelta = u.RatingDelta

\* Every trend score is the new-entry bonus for a new entry and 0 otherwise
ScoresAreBonusOrZero ==
    \A t \in Range(result.value.Trends) :
        t.TrendScore = IF t.NewEntry THEN args.cfg.NewEntryBonus ELSE Fin(0)

\* meanStd of no values is (0, 0), and zscore is 0 at deviation 0 whatever the
\* value and the mean
DegenerateCases ==
    /\ args.latestItems = <<>> =>
           /\ meanStd(ReturnedRankDeltas) = [mean |-> 0, std |-> 0]
           /\ meanStd(ReturnedReviewDeltas) = [mean |-> 0, std |-> 0]
    /\ \A x \in Range(ReturnedRankDeltas) \cup Range(ReturnedReviewDeltas) :
           \A m \in Range(ReturnedRankDeltas) \cup Range(ReturnedReviewDeltas) \cup
                    {meanStd(ReturnedRankDeltas).mean} :
               zscore(x, m, 0) = 0

\* The rank weight and the review weight of the call are finite numbers
FiniteCallWeights == args.cfg.RankWeight.k = "fin" /\ args.cfg.ReviewWeight.k = "fin"

\* C16, with finite weights: meanStd of no values is (0, 0) and zscore is 0 at
\* deviation 0; when all current items share one rank delta and one rating
\* delta and the two weights are finite, every trend score is the new-entry
\* bonus for a new entry and 0 for any other item
EqualDeltasScoreBonusFinite ==
    result.returned =>
        /\ DegenerateCases
        /\ (DeltasAllEqual /\ FiniteCallWeights) => ScoresAreBonusOrZero

\* C16, as stated: the same for any weights
EqualDeltasScoreBonus ==
    result.returned =>
        /\ DegenerateCases
        /\ DeltasAllEqual => ScoresAreBonusOrZero

\* A call with finite weights whose two current items, one new and one not,
\* have the same rank delta other than 0 and the same rating delta other
\* than 0
NewAndOldWithEqualDeltas ==
    /\ result.returned
    /\ FiniteCallWeights
    /\ DeltasAllEqual
    /\ \E t, u \in Range(result.value.Trends) :
           /\ t.NewEntry /\ ~u.NewEntry
           /\ t.RankDelta # 0 /\ t.RatingDelta # 0

-----------------------------------------------------------------------------
(* The day a transition is taken against (Spec) *)

\* The items of retained day i with the given AppID
OnDay(i, id) == {it \in Range(Grouped.items[i]) : it.AppID = id}

\* C17: in the time series every retained day after the first is compared
\* with the retained day just before it and no other: an item is a new entry
\* on day i exactly when it is not among the items of day i-1, its rank delta
\* then being limit + 1 minus its rank even if it charted on an earlier day,
\* and otherwise the rank it had on day i-1 minus its rank
TransitionAgainstDayBefore ==
    series.status = "ok" =>
        \A i \in 2..Days :
            /\ Len(series.payload.results[i].Trends) = Len(Grouped.items[i])
            /\ \A t \in Range(series.payload.results[i].Trends) :
                   /\ OnDay(i, t.AppID) # {}
                   /\ t.NewEntry <=> OnDay(i - 1, t.AppID) = {}
                   /\ t.NewEntry =>
                          t.RankDelta = Grouped.snapshots[i].Limit + 1 - t.Rank
                   /\ \A before \in OnDay(i - 1, t.AppID) :
                          t.RankDelta = before.Rank - t.Rank

\* A series in which an item charted on the first day, was off the chart on
\* the second and is back on the third
ItemReturnsAfterGap ==
    /\ series.status = "ok"
    /\ Days = 3
    /\ \E it \in Range(Grouped.items[3]) :
           /\ OnDay(1, it.AppID) # {}
           /\ OnDay(2, it.AppID) = {}

-----------------------------------------------------------------------------
(* The histories of the top items (Spec) *)

\* C18: for every selected top item and every retained day, the item's rank
\* entry for the day is null exactly when the item is not among that day's
\* items and otherwise is its rank that day; its rating-count entry is null
\* when the item is absent that day or has no valid rating count that day,
\* and otherwise is that day's rating count
HistoryNullWhereAbsent ==
    series.status = "ok" =>
        \A k \in 1..Len(series.payload.TopApps) :
            LET app == series.payload.TopApps[k]
            IN  \A i \in 1..Days :
                    /\ ~app.Ranks[i].Valid <=> OnDay(i, app.AppID) = {}
                    /\ app.RatingCounts[i].Valid <=>
                           \E it \in OnDay(i, app.AppID) : it.RatingCount.Valid
                    /\ \A it \in OnDay(i, app.AppID) :
                           /\ app.Ranks[i] = Ptr(it.Rank)
                           /\ it.RatingCount.Valid =>
                                  app.RatingCounts[i] = Ptr(it.RatingCount.Value)

\* A top item that is off the chart on one day, charted without a rating
\* count on another and charted with a rating count on a third
TopItemInEveryCase ==
    /\ series.status = "ok"
    /\ \E k \in 1..Len(series.payload.TopApps) :
           LET id == series.payload.TopApps[k].AppID
           IN  /\ \E i \in 1..Days : OnDay(i, id) = {}
               /\ \E i \in 1..Days : \E it \in OnDay(i, id) : ~it.RatingCount.Valid
               /\ \E i \in 1..Days : \E it \in OnDay(i, id) : it.RatingCount.Valid

-----------------------------------------------------------------------------
(* The order of the returned trends (SpecAnalyze) *)

\* The positions of the returned trends that are for the given item
PositionsOf(item) ==
    {t \in 1..Len(result.value.Trends) :
        /\ result.value.Trends[t].AppID = item.AppID
        /\ result.value.Trends[t].Rank = item.Rank
        /\ result.value.Trends[t].AppName = item.AppName}

\* One record for each current item and no other record
OneTrendPerCurrentItem ==
    /\ Len(result.value.Trends) = Len(args.latestItems)
    /\ \A i \in 1..Len(args.latestItems) :
           Cardinality(PositionsOf(args.latestItems[i])) = 1
    /\ \A t \in Range(result.value.Trends) :
           \E item \in Range(args.latestItems) : item.AppID = t.AppID

\* Each trend score is greater than or equal to the next (float64 >=)
ScoresNonIncreasing ==
    \A t \in 1..(Len(result.value.Trends) - 1) :
        \/ FGt(result.value.Trends[t].TrendScore, result.value.Trends[t + 1].TrendScore)
        \/ FEq(result.value.Trends[t].TrendScore, result.value.Trends[t + 1].TrendScore)

NoScoreIsNaN == \A t \in Range(result.value.Trends) : t.TrendScore.k # "nan"

\* C19, for scores that are not NaN: Trends has exactly one record per current
\* item and none for an item that is in the previous snapshot only; when no
\* trend score is NaN it is ordered by trend score non-increasing, and in any
\* case no record has a greater score than a record before it
TrendsSortedUnlessNaN ==
    result.returned =>
        /\ OneTrendPerCurrentItem
        /\ NoScoreIsNaN => ScoresNonIncreasing
        /\ \A t, u \in 1..Len(result.value.Trends) :
               t < u => ~FGt(result.value.Trends[u].TrendScore,
                             result.value.Trends[t].TrendScore)

\* C19, as stated: Trends has exactly one record per current item and none
\* for an item that is in the previous snapshot only, and is ordered by trend
\* score non-increasing
TrendsSortedByScore ==
    result.returned => OneTrendPerCurrentItem /\ ScoresNonIncreasing

\* A call whose previous items hold an app the current items lack and whose
\* two trends are returned in the reverse of the rank order, their scores
\* being different numbers
SortMovedLowerRankUp ==
    /\ result.returned
    /\ \E p \in Range(args.previousItems) :
           \A item \in Range(args.latestItems) : item.AppID # p.AppID
    /\ Len(result.value.Trends) = 2
    /\ result.value.Trends[1].Rank > result.value.Trends[2].Rank
    /\ result.value.Trends[1].TrendScore.k = "fin"
    /\ result.value.Trends[2].TrendScore.k = "fin"
    /\ result.value.Trends[1].TrendScore # result.value.Trends[2].TrendScore

-----------------------------------------------------------------------------
(* The risk scores (SpecAnalyze) *)

\* The theme of the rule that classifies a current item of the call: that of
\* the first configured rule matching it, or "other"
CallThemeOf(item) ==
    LET rules == args.themes.Rules
        first == FirstMatching(rules, ThemeInput(item.AppName, item.Genres, item.GenreIDs,
                                                 item.PrimaryGenre, item.ItunesGenres))
    IN  IF first = {} THEN sOther ELSE rules[CHOOSE i \in first : TRUE].Theme

\* The trend scores of the current items classified into theme t
CallScoresOfTheme(t) ==
    LET classed(x) == \E item \in Range(args.latestItems) :
                          item.AppID = x.AppID /\ CallThemeOf(item) = t
        mine == SelectSeq(result.value.Trends, classed)
    IN  [k \in 1..Len(mine) |-> mine[k].TrendScore]

\* The mean, over the themes of the group that have a classified item, of the
\* theme's mean trend score; 0 when the group has no such theme
GroupScore(group) ==
    LET with == SelectSeq(group, LAMBDA t : Len(CallScoresOfTheme(t)) > 0)
        mean(t) == FDivN(FSum(CallScoresOfTheme(t)), Len(CallScoresOfTheme(t)))
    IN  IF Len(with) = 0 THEN Fin(0)
        ELSE FDivN(FSum([k \in 1..Len(with) |-> mean(with[k])]), Len(with))

\* C20: the risk-on score AnalyzeTrends returns is the arithmetic mean of the
\* theme scores of exactly the themes of the configured risk-on group that
\* have a classified item in the transition, 0 when there is none, and the
\* risk-off score is the same of the risk-off group (stated for finite
\* weights, where every score is a number)
RiskScoresAreGroupMeans ==
    (result.returned /\ FiniteCallWeights) =>
        /\ result.value.RiskOnScore = GroupScore(args.themes.RiskOn)
        /\ result.value.RiskOffScore = GroupScore(args.themes.RiskOff)

-----------------------------------------------------------------------------
(* The mutex of serve (SpecServe) *)

\* The goroutines that are inside a fetch-and-persist cycle or an
\* analysis-read cycle: between the return of mu.Lock() and mu.Unlock()
InCycle ==
    {g \in {"auto"} : fetcher.pc \in {"feed", "item", "unlock"}} \cup
    {h \in DOMAIN handlers : handlers[h].pc \in {"compute", "unlock"}}

\* C21: in serve mode at most one goroutine at a time is inside a fetch cycle
\* or a report or time-series computation, that goroutine holding the mutex,
\* and no computation has read a snapshot whose items the auto-fetch is still
\* inserting
OneCycleAtATime ==
    /\ Cardinality(InCycle) <= 1
    /\ \A g \in InCycle : mu = g
    /\ \A h \in DOMAIN handlers :
           handlers[h].pc = "unlock" =>
               ~(fetcher.pc = "item" /\ fetcher.id \in handlers[h].read)

\* Both requests wait for the mutex while the auto-fetch, holding it, has
\* inserted the first item of a snapshot and not yet the second
RequestsWaitDuringInsert ==
    /\ \A h \in DOMAIN handlers : handlers[h].pc = "lock"
    /\ DOMAIN handlers # {}
    /\ fetcher.pc = "item"
    /\ fetcher.idx = 2
    /\ Len(chartItems[fetcher.id]) = 1

-----------------------------------------------------------------------------
(* Claims about FetchTopChart, checked on the calls of SpecChart *)

\* client.Do gave a 200 response whose body decoded
Decoded(r) == r.kind = "response" /\ r.status = StatusOK /\ r.decodes

\* The outcomes after which a further attempt is made
Transient(r) ==
    \/ r.kind = "error"
    \/ r.status >= StatusInternalServerError
    \/ r.status = StatusTooManyRequests

\* The same with the server errors taken as the class 5xx
TransientAsStated(r) ==
    \/ r.kind = "error"
    \/ r.status \in 500..599
    \/ r.status = StatusTooManyRequests

\* What a call that has made requests has done so far, told from the
\* outcomes of its requests
CallKeepsTo(Again(_)) ==
    LET c == topChart
        n == Len(c.seen)
    IN  /\ n <= MaxAttempts
        /\ \A i \in 1..(n - 1) : Again(c.seen[i])
        /\ n >= 1 =>
            LET last == c.seen[n]
            IN  /\ Decoded(last) => c.pc = "returned" /\ c.ok /\ c.err = ""
                /\ c.pc = "returned" /\ c.ok => Decoded(last)
                /\ ~Decoded(last) /\ ~Again(last) =>
                      c.pc = "returned" /\ ~c.ok /\ c.err = lastErrOf(last)
                /\ Again(last) /\ c.pc = "returned" =>
                      /\ ~c.ok
                      /\ \/ n = MaxAttempts /\ c.err = lastErrOf(last)
                         \/ n < MaxAttempts /\ c.ctxDone /\ c.err = "context canceled"
                /\ Again(last) /\ c.pc = "wait" => n < MaxAttempts
                /\ c.pc = "request" => Again(last) /\ n < MaxAttempts

\* C22: FetchTopChart returns after at most three requests; it returns
\* success on the first 200 response whose body decodes, tries again only
\* after a transport error, a status of 500 or above or a 429, returns the
\* error at once after any other failed response, and returns the context's
\* error when the context is cancelled during a wait.
FetchTopChartReturns ==
    /\ [](topChart.pc # "none" => CallKeepsTo(Transient))
    /\ <>(topChart.pc = "returned")

\* C22 as stated: a further attempt only after a transport error, a 5xx
\* status or a 429
FetchTopChartRetriesOn5xxOnly ==
    /\ [](topChart.pc # "none" => CallKeepsTo(TransientAsStated))
    /\ <>(topChart.pc = "returned")

\* The third request succeeded after a 503 and a 429
ThirdRequestSucceeds ==
    /\ topChart.pc = "returned"
    /\ topChart.ok
    /\ Len(topChart.seen) = MaxAttempts
    /\ topChart.seen[1].status = 503
    /\ topChart.seen[2].status = StatusTooManyRequests

-----------------------------------------------------------------------------
(* Claims about serve mode over time, checked on SpecServe *)

\* The items of snapshot s carry the ranks 1..n, each rank and each app
\* identifier once
WholeSnapshot(s) ==
    LET items == GetSnapshotItems(chartItems, s.ID)
    IN  /\ items # <<>>
        /\ \A i \in 1..Len(items) : items[i].Rank = i
        /\ \A i, j \in 1..Len(items) : i # j => items[i].AppID # items[j].AppID

\* C23: fetchSnapshot is all-or-nothing: after a call that returned an
\* error the store holds no snapshot row and no chart item of that call, a
\* call that returned none has stored every item of its feed, and so every
\* snapshot a request can list has its complete item list with ranks 1..n,
\* each rank and each app identifier once.
FetchIsAllOrNothing ==
    /\ \A i \in 1..Len(fetcher.log) :
          LET call == fetcher.log[i]
          IN  IF call.err # ""
                THEN /\ \A s \in Range(snapshots) : s.ID # call.id
                     /\ call.id \notin DOMAIN chartItems
                ELSE Len(GetSnapshotItems(chartItems, call.id)) = Len(call.chart)
    /\ mu # "auto" => \A s \in Range(ListSnapshots(snapshots)) : WholeSnapshot(s)


\* fetchSnapshot has returned an error in the call the fetcher is about to
\* leave, with k ticks received so far
FetchFailedAt(k) ==
    fetcher.pc = "unlock" /\ fetcher.err # "" /\ fetcher.ticks = k

\* Some call of fetchSnapshot has returned an error
FetchHasFailed == \E i \in 1..Len(fetcher.log) : fetcher.log[i].err # ""

\* C24: with auto-fetch on, a failed fetch neither stops the loop nor keeps
\* the mutex: after the failure the mutex is released, the next tick leads to
\* a new call of fetchSnapshot, and a request that arrives after a failure
\* gets the mutex and is answered.
FailedFetchStopsNothing ==
    /\ \A k \in 0..MaxTicks : FetchFailedAt(k) ~> (mu # "auto")
    /\ \A k \in 0..(MaxTicks - 1) :
          FetchFailedAt(k) ~> (fetcher.pc = "feed" /\ fetcher.ticks = k + 1)
    /\ \A h \in Handlers :
          (FetchHasFailed /\ handlers[h].pc = "lock") ~> (handlers[h].pc = "done")

\* The first fetch failed after its snapshot row was inserted; a report
\* request then read that snapshot and was answered, and the fetch after the
\* next tick has begun
ServedAndFetchedAfterFailure ==
    /\ Len(fetcher.log) >= 1
    /\ fetcher.log[1].err # ""
    /\ handlers["h1"].pc = "done"
    /\ fetcher.log[1].id \in handlers["h1"].read
    /\ fetcher.pc = "feed"
    /\ fetcher.ticks = 1

====
